---- MODULE Spec2Model ----
(***************************************************************************)
(* Control identifier reconciliation and search of the FedRAMP Streamlit   *)
(* app: the KSI/baseline identifier normalisation, the crosswalk set       *)
(* algebra and family tally (pages/4 Control Crosswalk), the control       *)
(* catalog build and the control search (pages/3 Control Search).          *)
(*                                                                         *)
(* A Python str is a sequence of one-character strings; a dict is the      *)
(* sequence of its keys in insertion order plus a function on the keys.    *)
(***************************************************************************)
EXTENDS Integers, Sequences, FiniteSets, TLC

VARIABLES
    page,              \* which script of pages/ is running
    \* --- identifier normalisation, one token of each source
    ctl,               \* the logical control both tokens denote
    ksi_token,         \* a control reference as written in the KSI text
    sort_id,           \* a SORT ID cell of a baseline sheet
    ksi_normalized,    \* `control` after lines 54-66 of pages/4
    baseline_id,       \* `control_id` after lines 128-131 of pages/4
    raw,               \* a raw identifier handed to the KSI normalisation
    once,              \* the normalisation of raw
    twice,             \* the normalisation of once
    n_done,            \* the normalisation steps taken so far
    \* --- pages/4: crosswalk
    raw_controls,      \* list(set(re.findall(pattern, content))), as a set
    sort_id_column,    \* baseline_df['SORT ID'].dropna(), as a set of cells
    ksi_controls,      \* sorted(normalized_controls), a list
    baseline_controls, \* sorted(list(baseline_controls)), a list
    in_both, ksi_only, baseline_only,
    families,          \* family -> {'ksi','baseline','both'} tallies
    st_errors,         \* the messages handed to st.error
    crosswalk_data,    \* the rows of the exported crosswalk
    cw_pc,
    \* --- pages/3: catalog build (two runs over permutations of the rows)
    rowsA, rowsB,      \* the baseline rows in the order they are iterated
    ksi_raw,           \* the KSI tokens found by re.findall
    controlsA, controlsB,
    b_done,
    \* --- pages/3: search_controls
    controls,          \* the catalog searched, keys in insertion order
    query, search_fields, fuzzy,
    results,           \* the `results` list before it is sorted
    returned,          \* what search_controls returned
    s_pc,
    \* --- the text of a document, and what the patterns find in it
    content,           \* f.read()
    ksi_numbers,       \* pages/4: sorted(ksi_numbers), the indicator tags
    control_ids,       \* pages/1: what extract_control_ids returned
    doc_pc,
    \* --- pages/3: get_control_suggestions
    partial,           \* the `query` argument
    limit,
    suggestions,       \* what get_control_suggestions returned
    g_pc,
    \* --- pages/3: the filters applied to the results of the search
    filter_families, filter_baselines, filter_ksi, filter_params,
    filtered_results,
    \* --- pages/2: Global Search
    session_state,     \* search_history and saved_searches
    search_query, search_type, case_sensitive,   \* the widgets
    documents,         \* load_all_documents()
    doc_results,       \* what search_documents returned
    gs_pc,
    \* --- pages/1: Document Browser
    selected_category, \* st.session_state.selected_category
    selected_doc,      \* st.session_state.selected_doc
    search_term,       \* st.session_state.search_term
    doc_file,          \* the (doc_type, filename) looked up at line 185
    br_pc

normVars   == <<ctl, ksi_token, sort_id, ksi_normalized, baseline_id, raw, once, twice, n_done>>
cwVars     == <<raw_controls, sort_id_column, ksi_controls, baseline_controls, in_both, ksi_only, baseline_only, families, st_errors, crosswalk_data, cw_pc>>
buildVars  == <<rowsA, rowsB, ksi_raw, controlsA, controlsB, b_done>>
searchVars == <<controls, query, search_fields, fuzzy, results, returned, s_pc>>
extractVars == <<content, ksi_numbers, control_ids, doc_pc>>
suggestVars == <<partial, limit, suggestions, g_pc>>
filterVars == <<filter_families, filter_baselines, filter_ksi, filter_params, filtered_results>>
globalVars == <<session_state, search_query, search_type, case_sensitive, documents, doc_results, gs_pc>>
browserVars == <<selected_category, selected_doc, search_term, doc_file, br_pc>>
vars       == <<page, normVars, cwVars, buildVars, searchVars, extractVars, suggestVars,
                filterVars, globalVars, browserVars>>

----------------------------------------------------------------------------
(* Bounds of the model *)

MaxBase == 2        \* base numbers 1..MaxBase and 11..10+MaxBase
MaxEnh == 2         \* enhancement numbers 1..MaxEnh (0: no enhancement)
MaxTokens == 3      \* KSI tokens in the text, SORT ID cells in the sheet
MaxRows == 3        \* rows over all baseline sheets

----------------------------------------------------------------------------
(* Characters and str methods *)

Lowers == <<"a","b","c","d","e","f","g","h","i","j","k","l","m",
            "n","o","p","q","r","s","t","u","v","w","x","y","z">>
Uppers == <<"A","B","C","D","E","F","G","H","I","J","K","L","M",
            "N","O","P","Q","R","S","T","U","V","W","X","Y","Z">>
DigitChars == <<"0","1","2","3","4","5","6","7","8","9">>

\* the characters of the model in code point order (Python compares str by code point)
CodePoints == <<" ", "(", ")", "-", ".">> \o DigitChars \o Uppers \o Lowers

Ord(c) == CHOOSE i \in DOMAIN CodePoints : CodePoints[i] = c

IsSpace(c) == c = " "

UpperChar(c) == IF \E i \in DOMAIN Lowers : Lowers[i] = c
                THEN Uppers[CHOOSE i \in DOMAIN Lowers : Lowers[i] = c]
                ELSE c

LowerChar(c) == IF \E i \in DOMAIN Uppers : Uppers[i] = c
                THEN Lowers[CHOOSE i \in DOMAIN Uppers : Uppers[i] = c]
                ELSE c

\* str.upper(), str.lower()
Upper(s) == [i \in DOMAIN s |-> UpperChar(s[i])]
Lower(s) == [i \in DOMAIN s |-> LowerChar(s[i])]

\* c in s
Contains(s, c) == \E i \in DOMAIN s : s[i] = c

\* str.split(sep) for a one-character separator: the list of the pieces
RECURSIVE Split(_, _)
Split(s, sep) ==
    IF ~Contains(s, sep) THEN <<s>>
    ELSE LET i == CHOOSE k \in DOMAIN s : s[k] = sep /\ \A j \in 1..(k-1) : s[j] # sep
         IN  <<SubSeq(s, 1, i-1)>> \o Split(SubSeq(s, i+1, Len(s)), sep)

\* str.zfill(width) of an unsigned string
zfill(s, width) == IF Len(s) >= width THEN s
                   ELSE [i \in 1..(width - Len(s)) |-> "0"] \o s

\* str.strip()
RECURSIVE strip(_)
strip(s) == IF s = <<>> THEN s
            ELSE IF IsSpace(s[1]) THEN strip(Tail(s))
            ELSE IF IsSpace(s[Len(s)]) THEN strip(SubSeq(s, 1, Len(s)-1))
            ELSE s

\* s.startswith(p)
startswith(s, p) == Len(p) <= Len(s) /\ SubSeq(s, 1, Len(p)) = p

\* q in s, for strings
IsSubstring(q, s) == \E i \in 0..(Len(s) - Len(q)) : SubSeq(s, i+1, i+Len(q)) = q

\* a < b for Python strings
RECURSIVE StrLess(_, _)
StrLess(a, b) ==
    IF b = <<>> THEN FALSE
    ELSE IF a = <<>> THEN TRUE
    ELSE IF a[1] # b[1] THEN Ord(a[1]) < Ord(b[1])
    ELSE StrLess(Tail(a), Tail(b))

----------------------------------------------------------------------------
(* pages/4: normalisation of a KSI control reference, lines 52-67 *)

\* what the unpacking `num, enhancement = num_part.split('.')` raises on
\* a num_part with more than one dot
ValueError == <<"ValueError">>

AddLeadingZero_always(s) == <<"0">> \o s

\* num.zfill(2): "Add leading zero"
AddLeadingZero(s) == zfill(s, 2)

normalize_control(control) ==
    LET upper == Upper(control)
        parts == Split(upper, "-")
    IN  IF Len(parts) = 2
        THEN LET family   == parts[1]
                 num_part == parts[2]
             IN  IF Contains(num_part, ".")
                 THEN LET np == Split(num_part, ".")
                      IN  IF Len(np) # 2 THEN ValueError
                          ELSE family \o <<"-">> \o AddLeadingZero(np[1])
                                      \o <<"(">> \o np[2] \o <<")">>
                 ELSE family \o <<"-">> \o AddLeadingZero(num_part)
        ELSE upper

(* pages/4: cleaning of a SORT ID cell, lines 128-131 *)

\* re.sub(r'\s*\(\s*', '(', s): every run of whitespace next to a '(' goes
RECURSIVE SkipSpaces(_)
SkipSpaces(s) == IF s # <<>> /\ IsSpace(s[1]) THEN SkipSpaces(Tail(s)) ELSE s

RECURSIVE sub_open_paren(_)
sub_open_paren(s) ==
    IF s = <<>> THEN s
    ELSE LET rest == SkipSpaces(s)
         IN  IF rest # <<>> /\ rest[1] = "("
             THEN <<"(">> \o sub_open_paren(SkipSpaces(Tail(rest)))
             ELSE <<s[1]>> \o sub_open_paren(Tail(s))

\* re.sub(r'\s*\)', ')', s): every run of whitespace before a ')' goes
RECURSIVE sub_close_paren(_)
sub_close_paren(s) ==
    IF s = <<>> THEN s
    ELSE LET rest == SkipSpaces(s)
         IN  IF rest # <<>> /\ rest[1] = ")"
             THEN <<")">> \o sub_close_paren(Tail(rest))
             ELSE <<s[1]>> \o sub_close_paren(Tail(s))

clean_sort_id(value) == sub_close_paren(sub_open_paren(strip(value)))

----------------------------------------------------------------------------
(* The written forms of a logical control *)

Families == {<<"A","T">>, <<"A","C">>}
BaseNums == (1..MaxBase) \cup {10 + n : n \in 1..MaxBase}
Controls == [fam : Families, num : BaseNums, enh : 0..MaxEnh]

Digits(n) == IF n < 10 THEN <<DigitChars[n+1]>>
             ELSE <<DigitChars[(n \div 10) + 1], DigitChars[(n % 10) + 1]>>
Pad2(n) == IF n < 10 THEN <<"0">> \o Digits(n) ELSE Digits(n)

\* FAMILY-NN or FAMILY-NN(E), E unpadded
Canonical(c) == c.fam \o <<"-">> \o Pad2(c.num)
                \o (IF c.enh = 0 THEN <<>> ELSE <<"(">> \o Digits(c.enh) \o <<")">>)

\* 'at-2.2', 'at-02.2', 'AT-2.2', ...: base number of 1-2 digits, dot enhancement
DotForms(c) ==
    { f \o <<"-">> \o n \o (IF c.enh = 0 THEN <<>> ELSE <<".">> \o Digits(c.enh)) :
        f \in {c.fam, Lower(c.fam)}, n \in {Digits(c.num), Pad2(c.num)} }

\* what the pattern of line 47 can match: lower case only
KsiForms(c) == { t \in DotForms(c) : t = Lower(t) }

\* 'AT-02 (02)' as the baseline workbook writes it, 'AT-02(2)' as the canonical form does
ParenForms(c) ==
    { f \o <<"-">> \o n \o e :
        f \in {c.fam, Lower(c.fam)},
        n \in {Digits(c.num), Pad2(c.num)},
        e \in IF c.enh = 0 THEN {<<>>}
              ELSE {<<" ", "(">> \o Pad2(c.enh) \o <<")">>,
                    <<"(">> \o Digits(c.enh) \o <<")">>} }

\* a SORT ID cell: upper case, padded base number
SortIdForms(c) == { t \in ParenForms(c) : t = Upper(t) /\ startswith(t, c.fam \o <<"-">> \o Pad2(c.num)) }

RawForms(c) == DotForms(c) \cup ParenForms(c)

\* strings that are no control reference: a family of three letters, of one
\* letter, a base number that is no number, a second '-'
MalformedForms ==
    { <<"A","C","C","-","1">>, <<"a","-","1">>, <<"a","c","-","x">>, <<"a","c","-","1","-","2">> }

Unset == <<>>

InitNorm ==
    /\ ctl \in Controls
    /\ ksi_token \in KsiForms(ctl)
    /\ sort_id \in SortIdForms(ctl)
    /\ raw \in RawForms(ctl) \cup MalformedForms
    /\ ksi_normalized = Unset
    /\ baseline_id = Unset
    /\ once = Unset
    /\ twice = Unset
    /\ n_done = {}

\* pages/4 lines 52-67 on one token of raw_controls
NormalizeKsiControl ==
    /\ page = "normalize"
    /\ "ksi" \notin n_done
    /\ ksi_normalized' = normalize_control(ksi_token)
    /\ n_done' = n_done \cup {"ksi"}
    /\ UNCHANGED <<page, ctl, ksi_token, sort_id, baseline_id, raw, once, twice>>
    /\ UNCHANGED <<cwVars, buildVars, searchVars, extractVars, suggestVars, filterVars, globalVars, browserVars>>

\* pages/4 lines 126-132 on one cell of the SORT ID column
CleanSortId ==
    /\ page = "normalize"
    /\ "baseline" \notin n_done
    /\ baseline_id' = clean_sort_id(sort_id)
    /\ n_done' = n_done \cup {"baseline"}
    /\ UNCHANGED <<page, ctl, ksi_token, sort_id, ksi_normalized, raw, once, twice>>
    /\ UNCHANGED <<cwVars, buildVars, searchVars, extractVars, suggestVars, filterVars, globalVars, browserVars>>

\* the KSI normalisation applied to a raw identifier of any form
NormalizeRaw ==
    /\ page = "normalize"
    /\ "once" \notin n_done
    /\ once' = normalize_control(raw)
    /\ n_done' = n_done \cup {"once"}
    /\ UNCHANGED <<page, ctl, ksi_token, sort_id, ksi_normalized, baseline_id, raw, twice>>
    /\ UNCHANGED <<cwVars, buildVars, searchVars, extractVars, suggestVars, filterVars, globalVars, browserVars>>

\* ... and applied again to its own output
NormalizeAgain ==
    /\ page = "normalize"
    /\ "once" \in n_done
    /\ "twice" \notin n_done
    /\ twice' = normalize_control(once)
    /\ n_done' = n_done \cup {"twice"}
    /\ UNCHANGED <<page, ctl, ksi_token, sort_id, ksi_normalized, baseline_id, raw, once>>
    /\ UNCHANGED <<cwVars, buildVars, searchVars, extractVars, suggestVars, filterVars, globalVars, browserVars>>

NextNorm == NormalizeKsiControl \/ CleanSortId \/ NormalizeRaw \/ NormalizeAgain

----------------------------------------------------------------------------
(* Lists and sets *)

SetOf(list) == { list[i] : i \in DOMAIN list }

\* some enumeration of a set: list(set(...)) has no defined order
RECURSIVE ListOf(_)
ListOf(S) == IF S = {} THEN <<>>
             ELSE LET x == CHOOSE x \in S : TRUE IN <<x>> \o ListOf(S \ {x})

\* sorted(list) of strings: stable insertion sort on the str order
RECURSIVE InsertStr(_, _)
InsertStr(x, sortedList) ==
    IF sortedList = <<>> THEN <<x>>
    ELSE IF StrLess(x, sortedList[1]) THEN <<x>> \o sortedList
    ELSE <<sortedList[1]>> \o InsertStr(x, Tail(sortedList))

RECURSIVE sorted(_)
sorted(list) == IF list = <<>> THEN <<>>
                ELSE InsertStr(list[Len(list)], sorted(SubSeq(list, 1, Len(list)-1)))

RECURSIVE SumOver(_, _)
SumOver(f, S) == IF S = {} THEN 0
                 ELSE LET x == CHOOSE x \in S : TRUE IN f[x] + SumOver(f, S \ {x})

----------------------------------------------------------------------------
(* pages/4: the crosswalk script *)

\* extract_ksi_controls, lines 48-74: raw_controls -> sorted(normalized_controls);
\* an exception anywhere returns []
extract_ksi_controls(found) ==
    LET list == ListOf(found)
        normalized_controls == [i \in DOMAIN list |-> normalize_control(list[i])]
    IN  IF \E i \in DOMAIN list : normalized_controls[i] = ValueError
        THEN <<>>
        ELSE sorted(normalized_controls)

\* row['SORT ID'] of a sheet that has no 'SORT ID' column, and the column of such a sheet
NoColumn == <<"no SORT ID column">>
MissingColumn == {NoColumn}

\* line 134
SortIdColumnNotFound == "'SORT ID' column not found in the Excel file"

\* lines 124-136: the SORT ID column -> sorted(list(baseline_controls));
\* without the column the set stays empty
extract_baseline_controls(cells) ==
    IF cells = MissingColumn THEN <<>>
    ELSE sorted(ListOf({ clean_sort_id(v) : v \in cells }))

\* lines 133-134: the else branch shows an error, the script goes on
baseline_errors(cells) == IF cells = MissingColumn THEN {SortIdColumnNotFound} ELSE {}

\* line 186
crosswalk_in_both(ksi, base) == SetOf(ksi) \cap SetOf(base)

\* line 187 without the `- set(baseline_controls)`
crosswalk_ksi_only_all(ksi, base) == SetOf(ksi)

\* line 187
crosswalk_ksi_only(ksi, base) == SetOf(ksi) \ SetOf(base)

\* line 188
crosswalk_baseline_only(ksi, base) == SetOf(base) \ SetOf(ksi)

IsUpperLetter(c) == \E i \in DOMAIN Uppers : Uppers[i] = c
IsDigit(c) == \E i \in DOMAIN DigitChars : DigitChars[i] = c

\* parse_control_id, lines 79-86: the base control, group 1 of
\* ([A-Z]{2}-\d{1,2})(?:\((\d+)\))? matched at the start, else the whole string
parse_control_id_base(control) ==
    IF /\ Len(control) >= 4
       /\ IsUpperLetter(control[1]) /\ IsUpperLetter(control[2])
       /\ control[3] = "-" /\ IsDigit(control[4])
    THEN IF Len(control) >= 5 /\ IsDigit(control[5])
         THEN SubSeq(control, 1, 5)
         ELSE SubSeq(control, 1, 4)
    ELSE control

family_of(control) == Split(parse_control_id_base(control), "-")[1]

NoTally == [ksi |-> 0, baseline |-> 0, both |-> 0]

\* lines 274-288: the loop over ksi_controls + baseline_controls
RECURSIVE tally_families(_, _, _)
tally_families(list, ksi, base) ==
    IF list = <<>> THEN << >>
    ELSE LET before  == tally_families(SubSeq(list, 1, Len(list)-1), ksi, base)
             control == list[Len(list)]
             family  == family_of(control)
             fams    == IF family \in DOMAIN before THEN before
                        ELSE [f \in DOMAIN before \cup {family} |->
                                 IF f = family THEN NoTally ELSE before[f]]
             bucket  == IF control \in SetOf(ksi) /\ control \in SetOf(base) THEN "both"
                        ELSE IF control \in SetOf(ksi) THEN "ksi"
                        ELSE "baseline"
         IN  [fams EXCEPT ![family][bucket] = @ + 1]

family_analysis(ksi, base) == tally_families(ksi \o base, ksi, base)

\* the 'Total' column, line 298
family_total(counts) == counts.both + counts.ksi + counts.baseline

CwControls == { c \in Controls : c.num = 1 /\ c.enh <= 1 }
KsiTokenPool == UNION { KsiForms(c) : c \in CwControls }
SortIdPool == UNION { SortIdForms(c) : c \in CwControls }

SmallSubsets(S) == { T \in SUBSET S : Cardinality(T) <= MaxTokens }

InitCrosswalk ==
    /\ raw_controls \in SmallSubsets(KsiTokenPool)
    /\ sort_id_column \in SmallSubsets(SortIdPool) \cup {MissingColumn}
    /\ ksi_controls = <<>>
    /\ baseline_controls = <<>>
    /\ in_both = {}
    /\ ksi_only = {}
    /\ baseline_only = {}
    /\ families = << >>
    /\ st_errors = {}
    /\ crosswalk_data = <<>>
    /\ cw_pc = "load"

\* lines 105-136: both control lists are loaded
LoadControlData ==
    /\ page = "crosswalk"
    /\ cw_pc = "load"
    /\ ksi_controls' = extract_ksi_controls(raw_controls)
    /\ baseline_controls' = extract_baseline_controls(sort_id_column)
    /\ st_errors' = st_errors \cup baseline_errors(sort_id_column)
    /\ cw_pc' = "analysis"
    /\ UNCHANGED <<page, raw_controls, sort_id_column, in_both, ksi_only, baseline_only, families, crosswalk_data>>
    /\ UNCHANGED <<normVars, buildVars, searchVars, extractVars, suggestVars, filterVars, globalVars, browserVars>>

\* lines 185-188
CrosswalkAnalysis ==
    /\ page = "crosswalk"
    /\ cw_pc = "analysis"
    /\ in_both' = crosswalk_in_both(ksi_controls, baseline_controls)
    /\ ksi_only' = crosswalk_ksi_only(ksi_controls, baseline_controls)
    /\ baseline_only' = crosswalk_baseline_only(ksi_controls, baseline_controls)
    /\ cw_pc' = "families"
    /\ UNCHANGED <<page, raw_controls, sort_id_column, ksi_controls, baseline_controls, families, st_errors, crosswalk_data>>
    /\ UNCHANGED <<normVars, buildVars, searchVars, extractVars, suggestVars, filterVars, globalVars, browserVars>>

\* lines 273-288
FamilyAnalysis ==
    /\ page = "crosswalk"
    /\ cw_pc = "families"
    /\ families' = family_analysis(ksi_controls, baseline_controls)
    /\ cw_pc' = "done"
    /\ UNCHANGED <<page, raw_controls, sort_id_column, ksi_controls, baseline_controls,
                   in_both, ksi_only, baseline_only, st_errors, crosswalk_data>>
    /\ UNCHANGED <<normVars, buildVars, searchVars, extractVars, suggestVars, filterVars, globalVars, browserVars>>

CheckMark == "check mark"
CrossMark == "cross mark"

\* lines 398-403: the row of a control
crosswalk_row(control, ksi, base, both, left) ==
    [ control_id  |-> control,
      in_ksi      |-> IF control \in SetOf(ksi) THEN CheckMark ELSE CrossMark,
      in_baseline |-> IF control \in SetOf(base) THEN CheckMark ELSE CrossMark,
      status      |-> IF control \in both THEN "Both"
                      ELSE IF control \in left THEN "KSI Only"
                      ELSE "Baseline Only" ]

\* line 395 over the two lists joined, without the set()
all_controls_listed(ksi, base) == sorted(ksi \o base)

\* line 395: sorted(list(set(ksi_controls + baseline_controls)))
all_controls(ksi, base) == sorted(ListOf(SetOf(ksi \o base)))

\* lines 396-404
crosswalk_rows(ksi, base, both, left) ==
    [i \in DOMAIN all_controls(ksi, base) |->
        crosswalk_row(all_controls(ksi, base)[i], ksi, base, both, left)]

\* lines 395-404: the export of the complete crosswalk
ExportCrosswalk ==
    /\ page = "crosswalk"
    /\ cw_pc = "done"
    /\ crosswalk_data' = crosswalk_rows(ksi_controls, baseline_controls, in_both, ksi_only)
    /\ cw_pc' = "exported"
    /\ UNCHANGED <<page, raw_controls, sort_id_column, ksi_controls, baseline_controls,
                   in_both, ksi_only, baseline_only, families, st_errors>>
    /\ UNCHANGED <<normVars, buildVars, searchVars, extractVars, suggestVars, filterVars, globalVars, browserVars>>

NextCrosswalk == LoadControlData \/ CrosswalkAnalysis \/ FamilyAnalysis \/ ExportCrosswalk

----------------------------------------------------------------------------
(* pages/3: load_all_controls *)

LowBaseline      == <<"L","o","w"," ","B","a","s","e","l","i","n","e">>
ModerateBaseline == <<"M","o","d","e","r","a","t","e"," ","B","a","s","e","l","i","n","e">>
BaselineWord     == <<"b","a","s","e","l","i","n","e">>
SpaceBaseline    == <<" ","B","a","s","e","l","i","n","e">>

\* str.replace(old, new), old not empty
RECURSIVE replace(_, _, _)
replace(s, old, new) ==
    IF Len(s) < Len(old) THEN s
    ELSE IF SubSeq(s, 1, Len(old)) = old
         THEN new \o replace(SubSeq(s, Len(old)+1, Len(s)), old, new)
         ELSE <<s[1]>> \o replace(Tail(s), old, new)

\* line 39: [:500]
DescriptionLimit == 500
truncate(s, n) == IF Len(s) <= n THEN s ELSE SubSeq(s, 1, n)

\* line 30, second conjunct
is_baseline_sheet(sheet_name) == IsSubstring(BaselineWord, Lower(sheet_name))

\* line 30, first conjunct: 'SORT ID' in df.columns, for the sheet of the row
has_sort_id_column(row) == row.sort_id # NoColumn

\* an empty cell is read as the float nan
NaN == <<"float nan">>

\* line 32: str(row['SORT ID'])
str_of(cell) == IF cell = NaN THEN <<"n","a","n">> ELSE cell

\* lines 35-43
new_control(control_id, row) ==
    [ id             |-> control_id,
      name           |-> row.name,
      family         |-> row.family,
      description    |-> truncate(row.description, DescriptionLimit),
      baselines      |-> <<>>,
      fedramp_params |-> (row.param = "X"),
      in_ksi         |-> FALSE ]

\* line 44 moved under the `if control_id not in controls`
append_baseline_first_only(known, entry, sheet_name) ==
    IF known THEN entry
    ELSE [entry EXCEPT !.baselines = Append(@, replace(sheet_name, SpaceBaseline, <<>>))]

\* line 44, once per row
append_baseline(known, entry, sheet_name) ==
    [entry EXCEPT !.baselines = Append(@, replace(sheet_name, SpaceBaseline, <<>>))]

\* a dict: its keys in insertion order and the value of each key
EmptyDict == [keys |-> <<>>, data |-> << >>]

dict_set(d, k, v) ==
    [ keys |-> IF k \in DOMAIN d.data THEN d.keys ELSE Append(d.keys, k),
      data |-> [x \in DOMAIN d.data \cup {k} |-> IF x = k THEN v ELSE d.data[x]] ]

\* lines 29-44: the rows of all sheets in iteration order
\* lines 34-43 without the `if control_id not in controls`: every row
\* writes the fields, the baselines collected so far are kept
entry_of_last_row(known, d, control_id, row) ==
    IF known THEN [new_control(control_id, row) EXCEPT !.baselines = d.data[control_id].baselines]
    ELSE new_control(control_id, row)

\* lines 34-43: the entry the row's baseline is appended to
entry_of(known, d, control_id, row) ==
    IF known THEN d.data[control_id] ELSE new_control(control_id, row)

RECURSIVE load_rows(_)
load_rows(rows) ==
    IF rows = <<>> THEN EmptyDict
    ELSE LET d          == load_rows(SubSeq(rows, 1, Len(rows)-1))
             row        == rows[Len(rows)]
             control_id == strip(str_of(row.sort_id))
         IN  IF has_sort_id_column(row) /\ is_baseline_sheet(row.sheet) /\ control_id # <<>>
             THEN LET known == control_id \in DOMAIN d.data
                      entry == entry_of(known, d, control_id, row)
                  IN  dict_set(d, control_id, append_baseline(known, entry, row.sheet))
             ELSE d

\* lines 57-72: every KSI token found is normalised and flagged if it is a key
flag_ksi(d, found) ==
    LET normalized == { normalize_control(t) : t \in found }
    IN  IF ValueError \in normalized THEN d
        ELSE [d EXCEPT !.data = [k \in DOMAIN d.data |->
                 IF k \in normalized THEN [d.data[k] EXCEPT !.in_ksi = TRUE]
                 ELSE d.data[k]]]

load_all_controls(rows, found) == flag_ksi(load_rows(rows), found)

Str_AC01 == <<"A","C","-","0","1">>
Str_AC02 == <<"A","C","-","0","2">>
Str_AB05 == <<"A","B","-","0","5">>
Str_Log == <<"L","o","g">>
Str_Ac  == <<"A","c">>
Str_AccessControl == <<"A","C">>

BaselineRow(i, n, sh) ==
    [sort_id |-> i, name |-> n, family |-> Str_AccessControl, description |-> Lower(n),
     param |-> "X", sheet |-> sh]

\* AC-01 is listed under two names, on either sheet; AC-02 under one
RowPool ==
    { BaselineRow(Str_AC01, n, sh) : n \in {Str_Log, Str_Ac}, sh \in {LowBaseline, ModerateBaseline} }
    \cup { BaselineRow(Str_AC02, Str_Log, LowBaseline) }

KsiFound == { <<"a","c","-","1">>, <<"a","c","-","3">> }

RowLists == UNION { [1..n -> RowPool] : n \in 0..MaxRows }

\* the orderings of the same rows
Orderings(a) ==
    { [i \in DOMAIN a |-> a[p[i]]] :
        p \in { f \in [DOMAIN a -> DOMAIN a] : \A i, j \in DOMAIN a : i # j => f[i] # f[j] } }

InitBuild ==
    /\ rowsA \in RowLists
    /\ rowsB \in Orderings(rowsA)
    /\ ksi_raw \in SUBSET KsiFound
    /\ controlsA = EmptyDict
    /\ controlsB = EmptyDict
    /\ b_done = {}

\* load_all_controls over the rows in one order, the tokens of the document given
BuildA ==
    /\ page = "build"
    /\ doc_pc = "idle"
    /\ "A" \notin b_done
    /\ controlsA' = load_all_controls(rowsA, ksi_raw)
    /\ b_done' = b_done \cup {"A"}
    /\ UNCHANGED <<page, rowsA, rowsB, ksi_raw, controlsB>>
    /\ UNCHANGED <<normVars, cwVars, searchVars, extractVars, suggestVars, filterVars, globalVars, browserVars>>

\* load_all_controls over the same rows in another order
BuildB ==
    /\ page = "build"
    /\ doc_pc = "idle"
    /\ "B" \notin b_done
    /\ controlsB' = load_all_controls(rowsB, ksi_raw)
    /\ b_done' = b_done \cup {"B"}
    /\ UNCHANGED <<page, rowsA, rowsB, ksi_raw, controlsA>>
    /\ UNCHANGED <<normVars, cwVars, searchVars, extractVars, suggestVars, filterVars, globalVars, browserVars>>

NextBuild == BuildA \/ BuildB

----------------------------------------------------------------------------
(* fuzz.partial_ratio(s1, s2) of fuzzywuzzy over difflib.SequenceMatcher,    *)
(* called at line 122; strings shorter than 200 characters (no autojunk)    *)

RECURSIVE common_prefix_len(_, _, _, _)
common_prefix_len(a, i, b, j) ==
    IF i > Len(a) \/ j > Len(b) THEN 0
    ELSE IF a[i] # b[j] THEN 0
    ELSE 1 + common_prefix_len(a, i+1, b, j+1)

\* the common blocks of a and b, one for each pair of start positions
common_blocks(a, b) ==
    { [i |-> i, j |-> j, k |-> common_prefix_len(a, i, b, j)] :
        i \in 1..Len(a), j \in 1..Len(b) }

\* m is preferred to n: longer, else starting earlier in a, else earlier in b
block_preferred(m, n) ==
    \/ m.k > n.k
    \/ m.k = n.k /\ m.i < n.i
    \/ m.k = n.k /\ m.i = n.i /\ m.j <= n.j

best_block(blocks) == CHOOSE m \in blocks : \A n \in blocks : block_preferred(m, n)

\* SequenceMatcher.find_longest_match: the longest common block, of those
\* the one starting earliest in a, of those the one starting earliest in b
find_longest_match(a, b) == best_block(common_blocks(a, b))

RECURSIVE matching_blocks(_, _, _, _)

\* the block m, then the blocks to its left and the blocks to its right
blocks_around(a, b, aoff, boff, m) ==
    IF m.k = 0 THEN {}
    ELSE {[i |-> aoff + m.i - 1, j |-> boff + m.j - 1, k |-> m.k]}
         \cup matching_blocks(SubSeq(a, 1, m.i - 1), SubSeq(b, 1, m.j - 1), aoff, boff)
         \cup matching_blocks(SubSeq(a, m.i + m.k, Len(a)), SubSeq(b, m.j + m.k, Len(b)),
                              aoff + m.i + m.k - 1, boff + m.j + m.k - 1)

\* SequenceMatcher.get_matching_blocks without the closing (la, lb, 0):
\* the blocks [i, j, k] with a[i:i+k] == b[j:j+k], 0-based
matching_blocks(a, b, aoff, boff) ==
    IF a = <<>> \/ b = <<>> THEN {}
    ELSE blocks_around(a, b, aoff, boff, find_longest_match(a, b))

RECURSIVE SumSizes(_)
SumSizes(blocks) == IF blocks = {} THEN 0
                    ELSE LET x == CHOOSE x \in blocks : TRUE IN x.k + SumSizes(blocks \ {x})

\* round(), halves to the even neighbour
round_div(num, den) ==
    LET q == num \div den
        r == num % den
    IN  IF 2 * r > den THEN q + 1
        ELSE IF 2 * r < den THEN q
        ELSE IF q % 2 = 0 THEN q ELSE q + 1

\* 100 * r for r = num / (2 * den); r > .995 of a pair of strings shorter
\* than 200 characters is r = 1, and ratio() of two empty strings is 1
percent(num, den) ==
    IF den = 0 \/ num = 100 * den THEN 100 ELSE round_div(num, den)

\* 100 * SequenceMatcher(None, a, b).ratio(): 2.0 * matches / length
ratio(a, b) == percent(200 * SumSizes(matching_blocks(a, b, 0, 0)), Len(a) + Len(b))

\* longer[long_start:long_start + len(shorter)]
long_substr(longer, long_start, n) ==
    SubSeq(longer, long_start + 1,
           IF long_start + n <= Len(longer) THEN long_start + n ELSE Len(longer))

\* block[1] - block[0] if that is > 0 else 0, over get_matching_blocks()
long_starts(blocks) == { IF x.j - x.i > 0 THEN x.j - x.i ELSE 0 : x \in blocks }

MaxOf(S) == CHOOSE x \in S : \A y \in S : x >= y

\* the best ratio of the shorter string against the windows of the longer
partial_ratio_ordered(shorter, longer) ==
    MaxOf({ ratio(shorter, long_substr(longer, st, Len(shorter))) :
              st \in long_starts(matching_blocks(shorter, longer, 0, 0)
                                 \cup {[i |-> Len(shorter), j |-> Len(longer), k |-> 0]}) })

partial_ratio(s1, s2) ==
    IF s1 = s2 THEN 100
    ELSE IF s1 = <<>> \/ s2 = <<>> THEN 0
    ELSE IF Len(s1) <= Len(s2) THEN partial_ratio_ordered(s1, s2)
    ELSE partial_ratio_ordered(s2, s1)

----------------------------------------------------------------------------
(* pages/3: search_controls *)

Str_C0 == <<"c","-","0">>
Str_AC == <<"A","C">>
Str_ac_1 == <<"a","c","-","1">>
Str_accounting == <<"a","c","c","o","u","n","t","i","n","g">>
Str_access_log == <<"a","c","c","e","s","s"," ","l","o","g">>
Str_AccessControlPolicy == <<"A","c","c","e","s","s"," ","C","o","n","t","r","o","l"," ","P","o","l","i","c","y">>
Str_AccountManagement == <<"A","c","c","o","u","n","t"," ","M","a","n","a","g","e","m","e","n","t">>
Str_AccessEnforcement == <<"A","c","c","e","s","s"," ","E","n","f","o","r","c","e","m","e","n","t">>
Str_AuditEvents == <<"A","u","d","i","t"," ","E","v","e","n","t","s">>
Str_Logs == <<"L","o","g","s">>
Str_Low == <<"L","o","w">>

CatalogEntry(i, n, d) ==
    [id |-> i, name |-> n, family |-> Str_AccessControl, description |-> d,
     baselines |-> <<Str_Low>>, fedramp_params |-> FALSE, in_ksi |-> FALSE]

EntryPool == { CatalogEntry(Str_AC01, Str_AccessControlPolicy, Str_Logs),
               CatalogEntry(Str_AC02, Str_AccountManagement, Str_AccessEnforcement),
               CatalogEntry(Str_AB05, Str_AuditEvents, Str_AccountManagement) }

Queries == { <<>>, Str_AC, Str_C0, Str_ac_1, Str_accounting, Str_access_log }
Fields == {"id", "name", "description"}

\* fuzz.partial_ratio(query_lower, field_value), evaluated once for each pair
\* of a query and a field value of the pool
PartialRatios ==
    [q \in { Lower(x) : x \in Queries },
     v \in { Lower(e[f]) : e \in EntryPool, f \in Fields } |-> partial_ratio(q, v)]

fuzz_partial_ratio(query_lower, field_value) == PartialRatios[query_lower, field_value]

\* line 123 with >= for >
is_fuzzy_match_inclusive(match_score) == match_score >= 70

\* line 123
is_fuzzy_match(match_score) == match_score > 70

\* line 127
exact_score(field) == IF field = "name" THEN 90 ELSE 80

Max(a, b) == IF a >= b THEN a ELSE b

\* line 115
id_prefix_match(control_id, q) == startswith(Lower(control_id), Lower(q))

RECURSIVE field_loop(_, _, _, _, _)

\* lines 116-117 without the `break` of line 118
id_matched_no_break(control_data, q, fields, fz, acc) ==
    field_loop(control_data, q, Tail(fields), fz, [score |-> 100, matched |-> TRUE])

\* lines 116-118: score 100 and `break`
id_matched(control_data, q, fields, fz, acc) == [score |-> 100, matched |-> TRUE]

\* lines 114-128: the loop over search_fields for one catalog entry
field_loop(control_data, q, fields, fz, acc) ==
    IF fields = <<>> THEN acc
    ELSE LET field == fields[1]
         IN  IF field = "id" /\ id_prefix_match(control_data.id, q)
             THEN id_matched(control_data, q, fields, fz, acc)
             ELSE IF field \in DOMAIN control_data
             THEN LET field_value == Lower(control_data[field])
                      match_score == fuzz_partial_ratio(Lower(q), field_value)
                      next == IF fz
                              THEN IF is_fuzzy_match(match_score)
                                   THEN [score |-> Max(acc.score, match_score), matched |-> TRUE]
                                   ELSE acc
                              ELSE IF IsSubstring(Lower(q), field_value)
                                   THEN [score |-> exact_score(field), matched |-> TRUE]
                                   ELSE acc
                  IN  field_loop(control_data, q, Tail(fields), fz, next)
             ELSE field_loop(control_data, q, Tail(fields), fz, acc)

\* lines 110-131: the loop over controls.items(), in insertion order
RECURSIVE collect_results(_, _, _, _, _)
collect_results(d, keys, q, fields, fz) ==
    IF keys = <<>> THEN <<>>
    ELSE LET control_data == d.data[keys[1]]
             out == field_loop(control_data, q, fields, fz, [score |-> 0, matched |-> FALSE])
         IN  (IF out.matched THEN <<[id |-> keys[1], score |-> out.score]>> ELSE <<>>)
             \o collect_results(d, Tail(keys), q, fields, fz)

\* line 134 with key=lambda x: -x[2]
sort_key_less_score_only(a, b) == a.score > b.score

\* line 134: key=lambda x: (-x[2], x[0])
sort_key_less(a, b) == a.score > b.score \/ (a.score = b.score /\ StrLess(a.id, b.id))

\* sorted(results, key=...): a stable sort
RECURSIVE insert_result(_, _)
insert_result(x, sortedList) ==
    IF sortedList = <<>> THEN <<x>>
    ELSE IF ~sort_key_less(sortedList[1], x) THEN <<x>> \o sortedList
    ELSE <<sortedList[1]>> \o insert_result(x, Tail(sortedList))

RECURSIVE sorted_results(_)
sorted_results(list) ==
    IF list = <<>> THEN <<>>
    ELSE insert_result(list[1], sorted_results(Tail(list)))

search_controls(q, d, fields, fz) == sorted_results(collect_results(d, d.keys, q, fields, fz))

\* the catalogs: the entries of a subset of the pool in some insertion order
RECURSIVE dict_of(_)
dict_of(entries) ==
    IF entries = <<>> THEN EmptyDict
    ELSE dict_set(dict_of(SubSeq(entries, 1, Len(entries)-1)),
                  entries[Len(entries)].id, entries[Len(entries)])

Arrangements(S) ==
    UNION { { a \in [1..n -> S] : \A i, j \in 1..n : i # j => a[i] # a[j] } :
              n \in 0..Cardinality(S) }

Catalogs == { dict_of(a) : a \in Arrangements(EntryPool) }
FieldLists == Arrangements(Fields)

InitSearch ==
    /\ controls \in Catalogs
    /\ query \in Queries
    /\ search_fields \in FieldLists
    /\ fuzzy \in BOOLEAN
    /\ results = <<>>
    /\ returned = <<>>
    /\ s_pc = "input"

\* search_controls(control_query, all_controls, search_fields, fuzzy_search)
Search ==
    /\ page = "search"
    /\ s_pc = "input"
    /\ results' = collect_results(controls, controls.keys, query, search_fields, fuzzy)
    /\ returned' = search_controls(query, controls, search_fields, fuzzy)
    /\ s_pc' = "done"
    /\ UNCHANGED <<page, controls, query, search_fields, fuzzy>>
    /\ UNCHANGED <<normVars, cwVars, buildVars, extractVars, suggestVars, filterVars, globalVars, browserVars>>

NextSearch == Search

----------------------------------------------------------------------------
(* The two pages over the same workbook and the same indicator document:    *)
(* pages/3 builds the catalog, then the user opens pages/4                  *)

HighBaseline == <<"H","i","g","h"," ","B","a","s","e","l","i","n","e">>
Str_AC01_01 == <<"A","C","-","0","1"," ","(","0","1",")">>
Str_ACC1 == <<"A","C","C","-","1">>

\* the sheets of the workbook that have no 'SORT ID' column
SheetsWithoutSortId == {HighBaseline}

\* the rows of the workbook: a control on two sheets, an enhancement, an
\* empty identifier cell, a cell that is no control id, a row of a sheet
\* without the identifier column
WorkbookRowPool ==
    { BaselineRow(Str_AC01, Str_AccessControlPolicy, sh) : sh \in {LowBaseline, ModerateBaseline} }
    \cup { BaselineRow(Str_AC01_01, Str_AccountManagement, LowBaseline),
           BaselineRow(NaN, Str_AuditEvents, LowBaseline),
           BaselineRow(Str_ACC1, Str_Logs, LowBaseline),
           BaselineRow(NoColumn, Str_AccessEnforcement, HighBaseline) }

WorkbookRowLists == UNION { [1..n -> WorkbookRowPool] : n \in 0..MaxRows }

\* the control tokens of the indicator document
IndicatorTokens == { <<"a","c","-","1">>, <<"a","c","-","1",".","1">>, <<"a","c","-","3">> }

\* pages/4 lines 107 and 125-126: the SORT ID cells of the selected sheet, empty cells dropped
sort_id_column_of(rows, selected_baseline) ==
    IF selected_baseline \in SheetsWithoutSortId THEN MissingColumn
    ELSE { rows[i].sort_id : i \in { j \in DOMAIN rows : /\ rows[j].sheet = selected_baseline
                                                         /\ rows[j].sort_id # NaN } }

InitWorkbook ==
    /\ rowsA \in WorkbookRowLists
    /\ rowsB = rowsA
    /\ ksi_raw \in SUBSET IndicatorTokens
    /\ controlsA = EmptyDict
    /\ controlsB = EmptyDict
    /\ b_done = {}
    /\ raw_controls = ksi_raw
    /\ \E selected_baseline \in {LowBaseline, HighBaseline} :
          sort_id_column = sort_id_column_of(rowsA, selected_baseline)
    /\ ksi_controls = <<>>
    /\ baseline_controls = <<>>
    /\ in_both = {}
    /\ ksi_only = {}
    /\ baseline_only = {}
    /\ families = << >>
    /\ st_errors = {}
    /\ crosswalk_data = <<>>
    /\ cw_pc = "load"

\* Home.py line 115: the user goes from the control search to the crosswalk
SwitchToCrosswalk ==
    /\ page = "build"
    /\ b_done = {"A", "B"}
    /\ cw_pc = "load"
    /\ page' = "crosswalk"
    /\ UNCHANGED <<normVars, cwVars, buildVars, searchVars, extractVars, suggestVars, filterVars, globalVars, browserVars>>

NextWorkbook == NextBuild \/ SwitchToCrosswalk \/ NextCrosswalk

----------------------------------------------------------------------------
(* A script that has not run *)

IdleNorm ==
    /\ ctl = [fam |-> <<>>, num |-> 0, enh |-> 0]
    /\ ksi_token = <<>> /\ sort_id = <<>> /\ raw = <<>>
    /\ ksi_normalized = Unset /\ baseline_id = Unset /\ once = Unset /\ twice = Unset
    /\ n_done = {}

IdleCrosswalk ==
    /\ raw_controls = {} /\ sort_id_column = {}
    /\ ksi_controls = <<>> /\ baseline_controls = <<>>
    /\ in_both = {} /\ ksi_only = {} /\ baseline_only = {}
    /\ families = << >>
    /\ st_errors = {}
    /\ crosswalk_data = <<>>
    /\ cw_pc = "idle"

IdleBuild ==
    /\ rowsA = <<>> /\ rowsB = <<>> /\ ksi_raw = {}
    /\ controlsA = EmptyDict /\ controlsB = EmptyDict
    /\ b_done = {}

IdleSearch ==
    /\ controls = EmptyDict
    /\ query = <<>> /\ search_fields = <<>> /\ fuzzy = FALSE
    /\ results = <<>> /\ returned = <<>>
    /\ s_pc = "idle"

IdleExtract ==
    /\ content = <<>> /\ ksi_numbers = <<>> /\ control_ids = <<>>
    /\ doc_pc = "idle"

IdleSuggest ==
    /\ partial = <<>> /\ limit = 0 /\ suggestions = <<>>
    /\ g_pc = "idle"

IdleFilter ==
    /\ filter_families = {} /\ filter_baselines = <<>>
    /\ filter_ksi = "All" /\ filter_params = "All"
    /\ filtered_results = <<>>

IdleGlobal ==
    /\ session_state = [search_history |-> <<>>, saved_searches |-> <<>>]
    /\ search_query = <<>> /\ search_type = "all" /\ case_sensitive = FALSE
    /\ documents = EmptyDict
    /\ doc_results = <<>>
    /\ gs_pc = "idle"

IdleBrowser ==
    /\ selected_category = "" /\ selected_doc = "" /\ search_term = <<>>
    /\ doc_file = <<>>
    /\ br_pc = "idle"

IdleLater == IdleFilter /\ IdleGlobal /\ IdleBrowser

IdleOthers == IdleExtract /\ IdleSuggest /\ IdleLater

----------------------------------------------------------------------------
(* The patterns of re.findall over the text of the indicator document:       *)
(* pages/4 lines 47 and 71, pages/3 line 54, pages/1 line 94.  A position is *)
(* an index of the text; a match end is the index after the match, 0 when    *)
(* the pattern does not match at the position.                               *)

MaxWords == 3       \* words of the document

\* [a-z], [A-Z], \d, \w
IsLowerLetter(c) == \E i \in DOMAIN Lowers : Lowers[i] = c
IsLetter(c) == IsLowerLetter(c) \/ IsUpperLetter(c)
IsWordChar(c) == IsLetter(c) \/ IsDigit(c)

\* whether position p holds a word character (False off the text)
word_at(s, p) == p \in DOMAIN s /\ IsWordChar(s[p])

\* \b between position p-1 and position p
word_boundary(s, p) == word_at(s, p - 1) # word_at(s, p)

\* the number of digits from position p on
RECURSIVE digit_run(_, _)
digit_run(s, p) == IF p \in DOMAIN s /\ IsDigit(s[p]) THEN 1 + digit_run(s, p + 1) ELSE 0

\* the number of upper-case letters from position p on
RECURSIVE upper_run(_, _)
upper_run(s, p) == IF p \in DOMAIN s /\ IsUpperLetter(s[p]) THEN 1 + upper_run(s, p + 1) ELSE 0

\* \d{1,2} from position p, n digits there: the ends it can stop at, greedy first
base_ends(p, n) == IF n >= 2 THEN <<p + 2, p + 1>>
                   ELSE IF n = 1 THEN <<p + 1>>
                   ELSE <<>>

\* \d+ from position p, n digits there: the ends it can stop at, greedy first
descending_ends(p, n) == [k \in 1..n |-> p + n + 1 - k]

\* (?:\.\d+)? from position e: the ends of the group when it is taken
dot_enhancement_ends(s, e) ==
    IF e \in DOMAIN s /\ s[e] = "." THEN descending_ends(e + 1, digit_run(s, e + 1))
    ELSE <<>>

\* \) after \d+ from position p, n digits there: only the whole run is followed by ')'
close_paren_end(s, p, n) ==
    IF n >= 1 /\ (p + n) \in DOMAIN s /\ s[p + n] = ")" THEN <<p + n + 1>> ELSE <<>>

\* (?:\(\d+\))? from position e: the ends of the group when it is taken
paren_enhancement_ends(s, e) ==
    IF e \in DOMAIN s /\ s[e] = "(" THEN close_paren_end(s, e + 1, digit_run(s, e + 1))
    ELSE <<>>

\* the ends to try after the base number, in the order the matcher tries
\* them: the group taken (greedy), then the group skipped, for each base end
dot_alternatives(s, bases) ==
    IF bases = <<>> THEN <<>>
    ELSE dot_enhancement_ends(s, bases[1]) \o <<bases[1]>>
         \o (IF Len(bases) = 2 THEN dot_enhancement_ends(s, bases[2]) \o <<bases[2]>> ELSE <<>>)

paren_alternatives(s, bases) ==
    IF bases = <<>> THEN <<>>
    ELSE paren_enhancement_ends(s, bases[1]) \o <<bases[1]>>
         \o (IF Len(bases) = 2 THEN paren_enhancement_ends(s, bases[2]) \o <<bases[2]>> ELSE <<>>)

\* the trailing \b: the first end tried that is at a word boundary
first_boundary(s, ends) ==
    IF \E k \in DOMAIN ends : word_boundary(s, ends[k])
    THEN ends[CHOOSE k \in DOMAIN ends : /\ word_boundary(s, ends[k])
                                         /\ \A j \in 1..(k-1) : ~word_boundary(s, ends[j])]
    ELSE 0

\* the pattern without its leading \b
leading_boundary_none(s, i) == TRUE

\* the leading \b of the control patterns
leading_boundary(s, i) == word_boundary(s, i)

\* [a-z] under re.IGNORECASE
ksi_letter_ignorecase(c) == IsLetter(c)

\* pages/4 line 47, pages/3 line 54: [a-z]
ksi_letter(c) == IsLowerLetter(c)

\* pages/4 line 47, pages/3 line 54: \b([a-z]{2}-\d{1,2}(?:\.\d+)?)\b at position i
ksi_control_match_end(s, i) ==
    IF /\ leading_boundary(s, i)
       /\ (i + 2) \in DOMAIN s
       /\ ksi_letter(s[i]) /\ ksi_letter(s[i + 1])
       /\ s[i + 2] = "-"
    THEN first_boundary(s, dot_alternatives(s, base_ends(i + 3, digit_run(s, i + 3))))
    ELSE 0

\* pages/1 line 94: \b[A-Z]{2}-\d{1,2}(?:\(\d+\))?\b at position i
control_id_match_end(s, i) ==
    IF /\ leading_boundary(s, i)
       /\ (i + 2) \in DOMAIN s
       /\ IsUpperLetter(s[i]) /\ IsUpperLetter(s[i + 1])
       /\ s[i + 2] = "-"
    THEN first_boundary(s, paren_alternatives(s, base_ends(i + 3, digit_run(s, i + 3))))
    ELSE 0

\* -\d+ after the category, which ends before position p; n digits follow the hyphen
ksi_number_end(s, p, n) ==
    IF p \in DOMAIN s /\ s[p] = "-" /\ n >= 1 THEN p + 1 + n ELSE 0

\* [A-Z]+-\d+ from position p, n upper-case letters there
ksi_category_end(s, p, n) ==
    IF n >= 1 THEN ksi_number_end(s, p + n, digit_run(s, p + n + 1)) ELSE 0

\* pages/4 line 71: KSI-[A-Z]+-\d+ at position i
ksi_number_match_end(s, i) ==
    IF /\ (i + 3) \in DOMAIN s
       /\ SubSeq(s, i, i + 3) = <<"K","S","I","-">>
    THEN ksi_category_end(s, i + 4, upper_run(s, i + 4))
    ELSE 0

\* re.findall: the matches from position i on, leftmost first, not
\* overlapping; ends[i] is the match end at position i
RECURSIVE findall_from(_, _, _)
findall_from(s, ends, i) ==
    IF i > Len(s) THEN <<>>
    ELSE IF ends[i] > 0 THEN <<SubSeq(s, i, ends[i] - 1)>> \o findall_from(s, ends, ends[i])
    ELSE findall_from(s, ends, i + 1)

\* pages/4 line 48, pages/3 line 55: set(re.findall(pattern, content))
find_ksi_controls(s) == SetOf(findall_from(s, [i \in DOMAIN s |-> ksi_control_match_end(s, i)], 1))

\* pages/4 lines 72 and 74: sorted(list(set(re.findall(ksi_pattern, content))))
find_ksi_numbers(s) ==
    sorted(ListOf(SetOf(findall_from(s, [i \in DOMAIN s |-> ksi_number_match_end(s, i)], 1))))

\* pages/1 lines 94-96
extract_control_ids(s) ==
    sorted(ListOf(SetOf(findall_from(s, [i \in DOMAIN s |-> control_id_match_end(s, i)], 1))))

\* the words of the documents: control ids in upper and lower case, bare,
\* dot-enhanced and parenthesised, and an indicator tag in upper and lower case
Word_AC1 == <<"A","C","-","1">>
Word_ac1 == <<"a","c","-","1">>
Word_ac2_3 == <<"a","c","-","2",".","3">>
Word_AC2_1 == <<"A","C","-","2","(","1",")">>
Word_KSI_IAM_05 == <<"K","S","I","-","I","A","M","-","0","5">>
Word_ksi_iam_05 == <<"k","s","i","-","i","a","m","-","0","5">>

TextWords == { Word_AC1, Word_ac1, Word_ac2_3, Word_AC2_1, Word_KSI_IAM_05, Word_ksi_iam_05 }

\* ' '.join(words)
RECURSIVE join(_)
join(words) == IF words = <<>> THEN <<>>
               ELSE IF Len(words) = 1 THEN words[1]
               ELSE words[1] \o <<" ">> \o join(Tail(words))

Texts == { join(ws) : ws \in UNION { [1..n -> TextWords] : n \in 0..MaxWords } }

\* the rows of the catalog the document is matched against
DocumentRowLists == { <<>>, <<BaselineRow(Str_AC01, Str_Log, LowBaseline)>>,
                      <<BaselineRow(Str_AC02, Str_Log, LowBaseline)>> }

InitExtract ==
    /\ content \in Texts
    /\ ksi_numbers = <<>>
    /\ control_ids = <<>>
    /\ doc_pc = "open"
    /\ \/ page = "browser" /\ IdleCrosswalk /\ IdleBuild
       \/ /\ page = "crosswalk"
          /\ raw_controls = {}
          /\ sort_id_column \in { {}, {Str_AC01} }
          /\ ksi_controls = <<>>
          /\ baseline_controls = <<>>
          /\ in_both = {}
          /\ ksi_only = {}
          /\ baseline_only = {}
          /\ families = << >>
          /\ st_errors = {}
          /\ crosswalk_data = <<>>
          /\ cw_pc = "read"
          /\ IdleBuild
       \/ /\ page = "build"
          /\ rowsA \in DocumentRowLists
          /\ rowsB = rowsA
          /\ ksi_raw = {}
          /\ controlsA = EmptyDict
          /\ controlsB = EmptyDict
          /\ b_done = {}
          /\ IdleCrosswalk

\* pages/1 lines 243, 276, 296: the control ids of the document shown
ExtractControlIds ==
    /\ page = "browser"
    /\ doc_pc = "open"
    /\ control_ids' = extract_control_ids(content)
    /\ doc_pc' = "shown"
    /\ UNCHANGED <<page, content, ksi_numbers>>
    /\ UNCHANGED <<normVars, cwVars, buildVars, searchVars, suggestVars, filterVars, globalVars, browserVars>>

\* pages/4 lines 43-48 and 71-72: the tokens and the tags of the document
ReadKsiDocument ==
    /\ page = "crosswalk"
    /\ doc_pc = "open"
    /\ cw_pc = "read"
    /\ raw_controls' = find_ksi_controls(content)
    /\ ksi_numbers' = find_ksi_numbers(content)
    /\ cw_pc' = "load"
    /\ doc_pc' = "read"
    /\ UNCHANGED <<page, content, control_ids>>
    /\ UNCHANGED <<sort_id_column, ksi_controls, baseline_controls, in_both, ksi_only,
                   baseline_only, families, st_errors, crosswalk_data>>
    /\ UNCHANGED <<normVars, buildVars, searchVars, suggestVars, filterVars, globalVars, browserVars>>

\* pages/3 lines 21-76: load_all_controls, the tokens read from the document
LoadAllControls ==
    /\ page = "build"
    /\ doc_pc = "open"
    /\ ksi_raw' = find_ksi_controls(content)
    /\ controlsA' = load_all_controls(rowsA, find_ksi_controls(content))
    /\ controlsB' = load_all_controls(rowsB, find_ksi_controls(content))
    /\ b_done' = {"A", "B"}
    /\ doc_pc' = "read"
    /\ UNCHANGED <<page, content, ksi_numbers, control_ids, rowsA, rowsB>>
    /\ UNCHANGED <<normVars, cwVars, searchVars, suggestVars, filterVars, globalVars, browserVars>>

NextExtract == ExtractControlIds \/ ReadKsiDocument \/ LoadAllControls \/ NextCrosswalk

----------------------------------------------------------------------------
(* pages/3: get_control_suggestions, lines 78-103, with process.extract and  *)
(* fuzz.token_sort_ratio of fuzzywuzzy                                       *)

MaxLimit == 3       \* the limit argument

\* utils.full_process: what is neither a letter nor a digit becomes a
\* space, then lower() and strip()
full_process(s) == strip(Lower([i \in DOMAIN s |-> IF IsWordChar(s[i]) THEN s[i] ELSE " "]))

IsToken(t) == t # <<>>

\* str.split(): the pieces between runs of spaces
tokens_of(s) == SelectSeq(Split(s, " "), IsToken)

\* fuzz._process_and_sort with full_process=False: " ".join(sorted(tokens)).strip()
process_and_sort(s) == strip(join(sorted(tokens_of(s))))

\* fuzz.ratio under check_for_equivalence and check_empty_string
fuzz_ratio(s1, s2) ==
    IF s1 = s2 THEN 100
    ELSE IF s1 = <<>> \/ s2 = <<>> THEN 0
    ELSE ratio(s1, s2)

\* fuzz.token_sort_ratio(s1, s2, full_process=False)
token_sort_ratio(s1, s2) == fuzz_ratio(process_and_sort(s1), process_and_sort(s2))

Str_A == <<"A">>
Str_ac == <<"a","c">>
Str_AC_1 == <<"A","C","-","1">>
Str_01_AC == <<"0","1","-","A","C">>

\* what the user has typed so far
Partials == { <<>>, Str_A, Str_AC, Str_ac, Str_AC_1, Str_01_AC, Str_AC01 }

\* the scorer process.extract applies to the processed query and each
\* processed choice, evaluated once for each pair of the pools
TokenSortRatios ==
    [q \in { Upper(x) : x \in Partials }, k \in { e.id : e \in EntryPool } |->
        token_sort_ratio(full_process(q), full_process(k))]

\* process.extractWithoutOrder over a list of choices: (choice, score)
scored_choices(q, choices) == [i \in DOMAIN choices |-> <<choices[i], TokenSortRatios[q, choices[i]]>>]

\* heapq.nlargest keeps the earlier of two equal scores first
RECURSIVE insert_by_score(_, _)
insert_by_score(x, best) ==
    IF best = <<>> THEN <<x>>
    ELSE IF x[2] > best[1][2] THEN <<x>> \o best
    ELSE <<best[1]>> \o insert_by_score(x, Tail(best))

RECURSIVE by_score(_)
by_score(list) ==
    IF list = <<>> THEN <<>>
    ELSE insert_by_score(list[Len(list)], by_score(SubSeq(list, 1, Len(list) - 1)))

\* list[:n] for n >= 0
take(list, n) == SubSeq(list, 1, IF n <= Len(list) THEN n ELSE Len(list))

\* process.extract(query, choices, scorer=fuzz.token_sort_ratio, limit=n)
process_extract(q, choices, n) == take(by_score(scored_choices(q, choices)), n)

\* lines 87-89
prefix_matches(q, keys) == SelectSeq(keys, LAMBDA control_id : startswith(control_id, q))

\* lines 99-101
RECURSIVE append_fuzzy(_, _)
append_fuzzy(found, fuzzy_matches) ==
    IF fuzzy_matches = <<>> THEN found
    ELSE append_fuzzy(IF fuzzy_matches[1][2] > 70 /\ fuzzy_matches[1][1] \notin SetOf(found)
                      THEN Append(found, fuzzy_matches[1][1])
                      ELSE found,
                      Tail(fuzzy_matches))

\* lines 92-101
with_fuzzy(q, keys, lim, found) ==
    IF Len(found) < lim
    THEN append_fuzzy(found, process_extract(q, keys, lim - Len(found)))
    ELSE found

\* line 103 without the slice
up_to_limit_unsliced(list, lim) == list

\* line 103
up_to_limit(list, lim) == take(list, lim)

get_control_suggestions(q, d, lim) ==
    IF q = <<>> THEN <<>>
    ELSE up_to_limit(with_fuzzy(Upper(q), d.keys, lim, prefix_matches(Upper(q), d.keys)), lim)

InitSuggest ==
    /\ controls \in Catalogs
    /\ query = <<>> /\ search_fields = <<>> /\ fuzzy = FALSE
    /\ results = <<>> /\ returned = <<>>
    /\ s_pc = "idle"
    /\ partial \in Partials
    /\ limit \in 0..MaxLimit
    /\ suggestions = <<>>
    /\ g_pc = "input"

\* get_control_suggestions(control_query, all_controls, limit)
Suggest ==
    /\ page = "search"
    /\ g_pc = "input"
    /\ suggestions' = get_control_suggestions(partial, controls, limit)
    /\ g_pc' = "done"
    /\ UNCHANGED <<page, partial, limit>>
    /\ UNCHANGED <<normVars, cwVars, buildVars, searchVars, extractVars, filterVars, globalVars, browserVars>>

NextSuggest == Suggest

----------------------------------------------------------------------------
(* pages/3: the runs of the page over the built catalog, lines 141-231: the  *)
(* widgets are read, the suggestions shown, the catalog searched and the     *)
(* results filtered                                                          *)

DefaultLimit == 10

Str_AT == <<"A","T">>
Str_Moderate == <<"M","o","d","e","r","a","t","e">>

\* lines 211-229: the filters let the result through
passes_filters(control_data, fams, bls, ksi, params) ==
    /\ ~(fams # {} /\ control_data.family \notin fams)
    /\ (bls # <<>> =>
           \E b \in SetOf(bls) : b \in SetOf(control_data.baselines))
    /\ ~(ksi = "In KSI" /\ ~control_data.in_ksi)
    /\ ~(ksi = "Not in KSI" /\ control_data.in_ksi)
    /\ ~(params = "Has Parameters" /\ ~control_data.fedramp_params)
    /\ ~(params = "No Parameters" /\ control_data.fedramp_params)

\* lines 207-231: filtered_results, a new list
apply_filters(list, d, fams, bls, ksi, params) ==
    SelectSeq(list, LAMBDA r : passes_filters(d.data[r.id], fams, bls, ksi, params))

\* the results filtered in place: what is filtered out is deleted from the dict
catalog_filtered_in_place(d, searched, kept) ==
    [ keys |-> SelectSeq(d.keys, LAMBDA k : \A i \in DOMAIN searched :
                                       searched[i].id = k => \E j \in DOMAIN kept : kept[j].id = k),
      data |-> [k \in { x \in DOMAIN d.data : \A i \in DOMAIN searched :
                            searched[i].id = x => \E j \in DOMAIN kept : kept[j].id = x } |-> d.data[k]] ]

\* lines 78-134 and 204-231: all_controls after the calls and the filter
\* loop, which only read controls and control_data (.get, in, startswith)
catalog_after_run(d, searched, kept) == d

\* what the user types and selects
SessionQueries == { <<>>, Str_AC, Str_ac_1, Str_AC_1 }
SessionFieldLists == { <<"id", "name">>, <<"name", "description">> }
NoFilter == [families |-> {}, baselines |-> <<>>, ksi |-> "All", params |-> "All"]
SessionFilters ==
    { NoFilter,
      [NoFilter EXCEPT !.families = {Str_AT}],
      [NoFilter EXCEPT !.baselines = <<Str_Moderate>>],
      [NoFilter EXCEPT !.ksi = "In KSI"],
      [NoFilter EXCEPT !.params = "No Parameters"] }

\* line 195
shows_suggestions(q) == q # <<>> /\ Len(q) < 6

\* line 202
runs_search(q) == q # <<>>

\* a catalog as load_all_controls leaves it: AC-02 is in two baselines, has
\* a FedRAMP parameter and is named by the KSI document
built_entry(e) ==
    IF e.id = Str_AC02
    THEN [e EXCEPT !.baselines = <<Str_Low, Str_Moderate>>, !.fedramp_params = TRUE, !.in_ksi = TRUE]
    ELSE e

BuiltCatalogs ==
    { dict_of([i \in DOMAIN a |-> built_entry(a[i])]) :
        a \in { x \in Arrangements(EntryPool) : Len(x) >= 2 } }

InitSession ==
    /\ controls \in BuiltCatalogs
    /\ query = <<>> /\ search_fields = <<>> /\ fuzzy = FALSE
    /\ results = <<>> /\ returned = <<>>
    /\ s_pc = "session"
    /\ IdleSuggest
    /\ IdleFilter

\* one run of the script
RunControlSearch ==
    /\ page = "search"
    /\ s_pc = "session"
    /\ \E q \in SessionQueries, fields \in SessionFieldLists, fz \in BOOLEAN, f \in SessionFilters :
          /\ query' = q
          /\ search_fields' = fields
          /\ fuzzy' = fz
          /\ filter_families' = f.families
          /\ filter_baselines' = f.baselines
          /\ filter_ksi' = f.ksi
          /\ filter_params' = f.params
          /\ partial' = q
          /\ limit' = DefaultLimit
          /\ suggestions' = IF shows_suggestions(q)
                            THEN get_control_suggestions(q, controls, DefaultLimit)
                            ELSE <<>>
          /\ results' = IF runs_search(q)
                        THEN collect_results(controls, controls.keys, q, fields, fz)
                        ELSE <<>>
          /\ \E searched \in { IF runs_search(q) THEN search_controls(q, controls, fields, fz)
                                ELSE <<>> } :
             \E kept \in { apply_filters(searched, controls,
                                         f.families, f.baselines, f.ksi, f.params) } :
                /\ returned' = searched
                /\ filtered_results' = kept
                /\ controls' = IF runs_search(q) THEN catalog_after_run(controls, searched, kept)
                                ELSE controls
    /\ UNCHANGED <<page, s_pc, g_pc>>
    /\ UNCHANGED <<normVars, cwVars, buildVars, extractVars, globalVars, browserVars>>

NextSession == RunControlSearch

----------------------------------------------------------------------------
(* pages/2: search_documents *)

MaxContexts == 5
ContextRadius == 100

Min(a, b) == IF a <= b THEN a ELSE b

\* re.IGNORECASE unless case_sensitive
chars_equal(a, b, cs) == IF cs THEN a = b ELSE LowerChar(a) = LowerChar(b)

\* the escaped query matches at the 0-based position pos
matches_at(text, q, pos, cs) ==
    /\ pos + Len(q) <= Len(text)
    /\ \A k \in 1..Len(q) : chars_equal(text[pos + k], q[k], cs)

\* the start of the leftmost match at or after pos, -1 when there is none
next_match(text, q, pos, cs) ==
    IF \E p \in pos..(Len(text) - Len(q)) : matches_at(text, q, p, cs)
    THEN CHOOSE p \in pos..(Len(text) - Len(q)) :
            /\ matches_at(text, q, p, cs)
            /\ \A r \in pos..(p - 1) : ~matches_at(text, q, r, cs)
    ELSE -1

\* line 107: pattern.finditer(content), the starts of the leftmost
\* non-overlapping matches; after an empty match the scan moves on by one
RECURSIVE finditer(_, _, _, _)
finditer(text, q, pos, cs) ==
    IF next_match(text, q, pos, cs) = -1 THEN <<>>
    ELSE <<next_match(text, q, pos, cs)>>
         \o finditer(text, q,
                     IF q = <<>> THEN next_match(text, q, pos, cs) + 1
                     ELSE next_match(text, q, pos, cs) + Len(q), cs)

\* line 112 without the slice
first_matches_all(matches) == matches

\* line 112: matches[:5]
first_matches(matches) == take(matches, MaxContexts)

\* line 113 without max(0, ...): a negative start counts from the end
context_start_wrapping(text, m) ==
    IF m - ContextRadius >= 0 THEN m - ContextRadius
    ELSE Max(0, Len(text) + m - ContextRadius)

\* line 113
context_start(text, m) == Max(0, m - ContextRadius)

\* line 114
context_end(text, m, q) == Min(Len(text), m + Len(q) + ContextRadius)

\* lines 113-120
context_of(text, q, m) ==
    [ text  |-> SubSeq(text, context_start(text, m) + 1, context_end(text, m, q)),
      start |-> m,
      match |-> SubSeq(text, m + 1, m + Len(q)) ]

\* line 103
type_selected(stype, doc_type) == ~(stype # "all" /\ doc_type # stype)

\* lines 102-122: the loop over documents.items(), in insertion order
RECURSIVE search_documents_loop(_, _, _, _, _)
search_documents_loop(q, d, keys, stype, cs) ==
    IF keys = <<>> THEN <<>>
    ELSE LET doc_data == d.data[keys[1]]
             matches == finditer(doc_data.content, q, 0, cs)
             chosen == first_matches(matches)
         IN  (IF type_selected(stype, doc_data.type) /\ matches # <<>>
              THEN << [ doc_name |-> keys[1],
                        doc_data |-> doc_data,
                        contexts |-> [i \in DOMAIN chosen |-> context_of(doc_data.content, q, chosen[i])] ] >>
              ELSE <<>>)
             \o search_documents_loop(q, d, Tail(keys), stype, cs)

search_documents(q, d, stype, cs) == search_documents_loop(q, d, d.keys, stype, cs)

\* the documents and the queries
Filler(n) == [i \in 1..n |-> "x"]
Str_ab == <<"a","b">>
Str_AB == <<"A","B">>
Str_aa == <<"a","a">>
Str_dash_ab == <<"-","a","b">>

\* ab at both ends and AB in the middle, each 120 characters apart
Content_edges == Str_ab \o Filler(120) \o Str_AB \o Filler(120) \o Str_ab

\* ab seven times
Content_many == Str_ab \o Str_dash_ab \o Str_dash_ab \o Str_dash_ab
                \o Str_dash_ab \o Str_dash_ab \o Str_dash_ab

\* overlapping occurrences of aa
Content_overlap == <<"a","a","a","a","a">>

Content_none == <<"x","y","z">>

DocumentPool ==
    << [name |-> "Standards/edges.md",
        doc  |-> [content |-> Content_edges, type |-> "Standards",
                  path |-> "fedramp-docs/markdown/edges.md"]],
       [name |-> "RFC/many.md",
        doc  |-> [content |-> Content_many, type |-> "RFC",
                  path |-> "fedramp-rfcs/rfc/many.md"]],
       [name |-> "RFC/none.md",
        doc  |-> [content |-> Content_none, type |-> "RFC",
                  path |-> "fedramp-rfcs/rfc/none.md"]],
       [name |-> "Roadmap/overlap.md",
        doc  |-> [content |-> Content_overlap, type |-> "Roadmap",
                  path |-> "fedramp-roadmap/overlap.md"]] >>

\* lines 28-68: load_all_documents over the files that exist: Standards,
\* then RFC, then Roadmap
RECURSIVE load_all_documents(_, _)
load_all_documents(present, i) ==
    IF i = 0 THEN EmptyDict
    ELSE IF i \in present
    THEN dict_set(load_all_documents(present, i - 1), DocumentPool[i].name, DocumentPool[i].doc)
    ELSE load_all_documents(present, i - 1)

DocumentCollections ==
    { load_all_documents(present, Len(DocumentPool)) : present \in SUBSET DOMAIN DocumentPool }

DocumentQueries == { Str_ab, Str_AB, Str_aa, Str_dash_ab }
SearchTypes == { "all", "Standards", "RFC", "Roadmap", "Controls" }
EmptySession == [search_history |-> <<>>, saved_searches |-> <<>>]

InitDocSearch ==
    /\ session_state = EmptySession
    /\ search_query \in DocumentQueries
    /\ search_type \in SearchTypes
    /\ case_sensitive \in BOOLEAN
    /\ documents \in DocumentCollections
    /\ doc_results = <<>>
    /\ gs_pc = "input"

\* search_documents(search_query, documents, search_type, case_sensitive)
SearchDocuments ==
    /\ page = "global"
    /\ gs_pc = "input"
    /\ doc_results' = search_documents(search_query, documents, search_type, case_sensitive)
    /\ gs_pc' = "searched"
    /\ UNCHANGED <<page, session_state, search_query, search_type, case_sensitive, documents>>
    /\ UNCHANGED <<normVars, cwVars, buildVars, searchVars, extractVars, suggestVars, filterVars, browserVars>>

NextDocSearch == SearchDocuments

----------------------------------------------------------------------------
(* pages/2: the runs of the page, lines 22-25 and 148-349; a run is started  *)
(* by one button and sees the text of the query box                          *)

HistoryLimit == 10

\* lines 221-222 without the slice of line 223
history_after_search_unsliced(history, q) ==
    IF q \in SetOf(history) THEN history ELSE <<q>> \o history

\* lines 221-223
history_after_search(history, q) ==
    IF q \in SetOf(history) THEN history ELSE take(<<q>> \o history, HistoryLimit)

\* line 201 without the test of line 200
saved_after_save_unchecked(saved, q) == Append(saved, q)

\* lines 200-201
saved_after_save(saved, q) == IF q \in SetOf(saved) THEN saved ELSE Append(saved, q)

\* list.pop(idx), idx counted from 0
pop(list, idx) == SubSeq(list, 1, idx) \o SubSeq(list, idx + 2, Len(list))

\* line 195 clearing the whole session
session_after_clear_all(session) ==
    [session EXCEPT !.search_history = <<>>, !.saved_searches = <<>>]

\* line 195
session_after_clear(session) == [session EXCEPT !.search_history = <<>>]

\* lines 211 and 348: st.session_state.search_query = ...
with_search_query(session, q) ==
    [k \in DOMAIN session \cup {"search_query"} |->
        IF k = "search_query" THEN q ELSE session[k]]

\* lines 229-233
doc_results_of(q, d, stype, cs) ==
    IF stype \in {"all", "Standards", "RFC", "Roadmap"}
    THEN search_documents(q, d, stype, cs)
    ELSE <<>>

\* the texts of the query box are one-letter queries; the box holds the
\* empty text, the text it held, or a query not in the history: the letter
\* after the most recent query (the first letter when the history is empty)
QueryPool == [i \in 1..(HistoryLimit + 1) |-> <<Lowers[i]>>]
PoolIndex(q) == CHOOSE i \in DOMAIN QueryPool : QueryPool[i] = q
NewQuery ==
    IF session_state.search_history = <<>> THEN QueryPool[1]
    ELSE QueryPool[(PoolIndex(session_state.search_history[1]) % Len(QueryPool)) + 1]
QueryTexts == {<<>>, search_query, NewQuery}

\* the queries that get saved
SavedPool == { <<"a">>, <<"b">>, <<"c">> }

InitGlobal ==
    /\ session_state = EmptySession
    /\ search_query = <<>>
    /\ search_type = "all"
    /\ case_sensitive = FALSE
    /\ documents = load_all_documents({4}, Len(DocumentPool))
    /\ doc_results = <<>>
    /\ gs_pc = "session"

\* lines 191 and 219-239: the Search button
SearchPressed ==
    /\ page = "global"
    /\ gs_pc = "session"
    /\ \E q \in QueryTexts :
          /\ search_query' = q
          /\ session_state' =
                IF q # <<>>
                THEN [session_state EXCEPT !.search_history = history_after_search(@, q)]
                ELSE session_state
          /\ doc_results' = IF q # <<>> THEN doc_results_of(q, documents, search_type, case_sensitive)
                            ELSE <<>>
    /\ UNCHANGED <<page, search_type, case_sensitive, documents, gs_pc>>
    /\ UNCHANGED <<normVars, cwVars, buildVars, searchVars, extractVars, suggestVars, filterVars, browserVars>>

\* lines 194-196: the Clear button, then the rerun
ClearPressed ==
    /\ page = "global"
    /\ gs_pc = "session"
    /\ session_state' = session_after_clear(session_state)
    /\ doc_results' = <<>>
    /\ UNCHANGED <<page, search_query, search_type, case_sensitive, documents, gs_pc>>
    /\ UNCHANGED <<normVars, cwVars, buildVars, searchVars, extractVars, suggestVars, filterVars, browserVars>>

\* lines 199-202: the Save Search button, shown when the box is not empty
SavePressed ==
    /\ page = "global"
    /\ gs_pc = "session"
    /\ \E q \in (QueryTexts \ {<<>>}) \cap SavedPool :
          /\ search_query' = q
          /\ session_state' = [session_state EXCEPT !.saved_searches = saved_after_save(@, q)]
    /\ doc_results' = <<>>
    /\ UNCHANGED <<page, search_type, case_sensitive, documents, gs_pc>>
    /\ UNCHANGED <<normVars, cwVars, buildVars, searchVars, extractVars, suggestVars, filterVars, browserVars>>

\* lines 210-212: a saved search is selected, then the rerun
SavedSelected ==
    /\ page = "global"
    /\ gs_pc = "session"
    /\ \E idx \in 0..(Len(session_state.saved_searches) - 1) :
          session_state' = with_search_query(session_state, session_state.saved_searches[idx + 1])
    /\ doc_results' = <<>>
    /\ UNCHANGED <<page, search_query, search_type, case_sensitive, documents, gs_pc>>
    /\ UNCHANGED <<normVars, cwVars, buildVars, searchVars, extractVars, suggestVars, filterVars, browserVars>>

\* lines 214-216: a saved search is deleted, then the rerun
DeletePressed ==
    /\ page = "global"
    /\ gs_pc = "session"
    /\ \E idx \in 0..(Len(session_state.saved_searches) - 1) :
          session_state' = [session_state EXCEPT !.saved_searches = pop(@, idx)]
    /\ doc_results' = <<>>
    /\ UNCHANGED <<page, search_query, search_type, case_sensitive, documents, gs_pc>>
    /\ UNCHANGED <<normVars, cwVars, buildVars, searchVars, extractVars, suggestVars, filterVars, browserVars>>

\* lines 346-349: a recent search is selected, then the rerun
HistorySelected ==
    /\ page = "global"
    /\ gs_pc = "session"
    /\ \E i \in DOMAIN session_state.search_history :
          session_state' = with_search_query(session_state, session_state.search_history[i])
    /\ doc_results' = <<>>
    /\ UNCHANGED <<page, search_query, search_type, case_sensitive, documents, gs_pc>>
    /\ UNCHANGED <<normVars, cwVars, buildVars, searchVars, extractVars, suggestVars, filterVars, browserVars>>

NextGlobal ==
    SearchPressed \/ ClearPressed \/ SavePressed \/ SavedSelected \/ DeletePressed
    \/ HistorySelected

----------------------------------------------------------------------------
(* pages/1: the category and document selectors, lines 22-56, 133-163, 185 *)

\* a category of DOCUMENTS: title -> (doc_type, filename), in insertion order
category_of(doc_type, entries) ==
    [ keys |-> [i \in DOMAIN entries |-> entries[i][1]],
      data |-> [t \in { entries[i][1] : i \in DOMAIN entries } |->
                  <<doc_type, (CHOOSE e \in SetOf(entries) : e[1] = t)[2]>>] ]

Standards ==
    category_of("docs",
      << <<"Key Security Indicators (with Controls)", "FRMR.KSI.key-security-indicators-with-controls.md">>,
         <<"Key Security Indicators", "FRMR.KSI.key-security-indicators.md">>,
         <<"20x Low Pilot Requirements", "FRMR.LOW.20x-low-pilot.md">>,
         <<"Minimum Assessment Standard", "FRMR.MAS.minimum-assessment-standard.md">>,
         <<"Significant Change Notifications", "FRMR.SCN.significant-change-notifications.md">> >>)

RFCs ==
    category_of("rfc",
      << <<"RFC 0001: New Comment Process", "0001.md">>,
         <<"RFC 0002: 3PAO Requirements", "0002.md">>,
         <<"RFC 0003: Review Initiation Check", "0003.md">>,
         <<"RFC 0004: Boundary Policy", "0004.md">>,
         <<"RFC 0005: Minimum Assessment Scope", "0005.md">>,
         <<"RFC 0006: Key Security Indicators", "0006.md">>,
         <<"RFC 0007: Significant Change Notification", "0007.md">>,
         <<"RFC 0008: Continuous Reporting Standard", "0008.md">>,
         <<"RFC 0009: SCN Technical Assistance", "0009.md">>,
         <<"RFC 0010: Scope Interpretation", "0010.md">>,
         <<"RFC 0011: Storing and Sharing Standard", "0011.md">>,
         <<"RFC 0012: Vulnerability Management", "0012.md">> >>)

Roadmap ==
    category_of("roadmap",
      << <<"Roadmap Overview", "README.md">>,
         <<"Sprint Progress Updates", "PROGRESS.md">> >>)

\* lines 22-48; the category names without their pictographs
DOCUMENTS ==
    [ keys |-> <<"Standards", "RFCs", "Roadmap">>,
      data |-> [c \in {"Standards", "RFCs", "Roadmap"} |->
                  IF c = "Standards" THEN Standards
                  ELSE IF c = "RFCs" THEN RFCs ELSE Roadmap] ]

KeyError == <<"KeyError">>

\* list.index(x), counted from 1
index(list, x) == CHOOSE i \in DOMAIN list : list[i] = x /\ \A j \in 1..(i - 1) : list[j] # x

\* line 140 left out: the stored category stays what it was
stored_category_kept(chosen, previous) == previous

\* line 140
stored_category(chosen, previous) == chosen

\* lines 146-147
reset_selected_doc(doc, doc_options) ==
    IF doc \notin SetOf(doc_options) THEN doc_options[1] ELSE doc

\* line 152: the option the select box shows when it is built
default_option(doc, doc_options) ==
    IF doc \in SetOf(doc_options) THEN doc_options[index(doc_options, doc)] ELSE doc_options[1]

\* line 185: DOCUMENTS[category][doc]
lookup(category, doc) ==
    IF category \in SetOf(DOCUMENTS.keys) /\ doc \in SetOf(DOCUMENTS.data[category].keys)
    THEN DOCUMENTS.data[category].data[doc]
    ELSE KeyError

\* what is typed into the search box
SearchTerms == Queries

\* lines 51-56
InitBrowser ==
    /\ selected_category = "Standards"
    /\ selected_doc = DOCUMENTS.data["Standards"].keys[1]
    /\ search_term = <<>>
    /\ doc_file = <<>>
    /\ br_pc = "start"

\* what the select box returns: a select box with other options is a new
\* widget, which returns the option it shows; otherwise any option the user
\* picks
selectbox(doc_options, shown, is_new) == IF is_new THEN {shown} ELSE SetOf(doc_options)

\* one run of the script, lines 135-186
RunBrowser ==
    /\ page = "browser"
    /\ \E chosen \in SetOf(DOCUMENTS.keys), term \in SearchTerms :
          \E doc \in selectbox(DOCUMENTS.data[chosen].keys,
                               default_option(reset_selected_doc(selected_doc, DOCUMENTS.data[chosen].keys),
                                              DOCUMENTS.data[chosen].keys),
                               chosen # selected_category) :
             /\ selected_category' = stored_category(chosen, selected_category)
             /\ selected_doc' = doc
             /\ search_term' = term
             /\ doc_file' = lookup(stored_category(chosen, selected_category), doc)
    /\ br_pc' = "shown"
    /\ UNCHANGED page
    /\ UNCHANGED <<normVars, cwVars, buildVars, searchVars, extractVars, suggestVars, filterVars, globalVars>>

NextBrowser == RunBrowser

----------------------------------------------------------------------------
(* The specifications: one script of pages/ runs, the others are idle *)

NormInit      == page = "normalize" /\ InitNorm /\ IdleCrosswalk /\ IdleBuild /\ IdleSearch /\ IdleOthers
CrosswalkInit == page = "crosswalk" /\ IdleNorm /\ InitCrosswalk /\ IdleBuild /\ IdleSearch /\ IdleOthers
BuildInit     == page = "build" /\ IdleNorm /\ IdleCrosswalk /\ InitBuild /\ IdleSearch /\ IdleOthers
SearchInit    == page = "search" /\ IdleNorm /\ IdleCrosswalk /\ IdleBuild /\ InitSearch /\ IdleOthers
WorkbookInit  == page = "build" /\ IdleNorm /\ InitWorkbook /\ IdleSearch /\ IdleOthers

SpecNorm      == NormInit /\ [][NextNorm]_vars
SpecCrosswalk == CrosswalkInit /\ [][NextCrosswalk]_vars
SpecBuild     == BuildInit /\ [][NextBuild]_vars
SpecSearch    == SearchInit /\ [][NextSearch]_vars
ExtractInit   == IdleNorm /\ InitExtract /\ IdleSearch /\ IdleSuggest /\ IdleLater

SpecWorkbook  == WorkbookInit /\ [][NextWorkbook]_vars
SuggestInit   == page = "search" /\ IdleNorm /\ IdleCrosswalk /\ IdleBuild /\ InitSuggest /\ IdleExtract /\ IdleLater

SessionInit   == page = "search" /\ IdleNorm /\ IdleCrosswalk /\ IdleBuild /\ InitSession
                 /\ IdleExtract /\ IdleGlobal /\ IdleBrowser

SpecExtract   == ExtractInit /\ [][NextExtract]_vars
SpecSession   == SessionInit /\ [][NextSession]_vars

DocSearchInit == page = "global" /\ IdleNorm /\ IdleCrosswalk /\ IdleBuild /\ IdleSearch
                 /\ IdleExtract /\ IdleSuggest /\ IdleFilter /\ InitDocSearch /\ IdleBrowser
SpecDocSearch == DocSearchInit /\ [][NextDocSearch]_vars

GlobalInit    == page = "global" /\ IdleNorm /\ IdleCrosswalk /\ IdleBuild /\ IdleSearch
                 /\ IdleExtract /\ IdleSuggest /\ IdleFilter /\ InitGlobal /\ IdleBrowser
SpecGlobal    == GlobalInit /\ [][NextGlobal]_vars

BrowserInit   == page = "browser" /\ IdleNorm /\ IdleCrosswalk /\ IdleBuild /\ IdleSearch
                 /\ IdleExtract /\ IdleSuggest /\ IdleFilter /\ IdleGlobal /\ InitBrowser
SpecBrowser   == BrowserInit /\ [][NextBrowser]_vars
SpecSuggest   == SuggestInit /\ [][NextSuggest]_vars

Init == NormInit \/ CrosswalkInit \/ BuildInit \/ SearchInit \/ WorkbookInit \/ ExtractInit \/ SuggestInit
Next == NextNorm \/ NextBuild \/ NextSearch \/ SwitchToCrosswalk \/ NextExtract \/ NextSuggest
Spec == Init /\ [][Next]_vars

----------------------------------------------------------------------------
(* Properties *)

ReturnedIds == [i \in DOMAIN returned |-> returned[i].id]
FieldSet == SetOf(search_fields)
CatalogKeys == DOMAIN controls.data

\* "canonical id starts with the upper-cased query"
StartsWithQuery(k) == startswith(k, Upper(query))
IdPrefixHit(k) == "id" \in FieldSet /\ StartsWithQuery(k)

\* the query is a case-insensitive substring of field f of entry k
FieldContainsQuery(k, f) ==
    f \in FieldSet /\ IsSubstring(Lower(query), Lower(controls.data[k][f]))

CountIn(list, x) == Cardinality({ i \in DOMAIN list : list[i] = x })
SameBag(a, b) == \A x \in SetOf(a) \cup SetOf(b) : CountIn(a, x) = CountIn(b, x)

\* C1: the dot form of the KSI text and the paren form of the SORT ID cell of
\* one logical control both become the canonical string FAMILY-NN(E), E
\* unpadded, so the two sources compare equal.
C1_NormalizationEquivalence ==
    (page = "normalize" /\ {"ksi", "baseline"} \subseteq n_done)
        => /\ ksi_normalized = baseline_id
           /\ ksi_normalized = Canonical(ctl)

\* C2: normalising twice gives what normalising once gives, for a raw
\* identifier of any case, dot or paren enhancement, padded or unpadded base
\* number; a canonical string is returned unchanged.
C2_NormalizationIdempotent ==
    /\ "twice" \in n_done => twice = once
    /\ ("once" \in n_done /\ raw = Canonical(ctl)) => once = raw

C2_Witness ==
    /\ "twice" \in n_done
    /\ once # raw
    /\ once = Canonical(ctl)
    /\ ctl.enh # 0

\* C3: in_both, ksi_only and baseline_only are pairwise disjoint and their
\* sizes add up to the size of the union of the two identifier sets.
C3_CrosswalkConservation ==
    cw_pc \in {"families", "done"} =>
        /\ in_both \cap ksi_only = {}
        /\ in_both \cap baseline_only = {}
        /\ ksi_only \cap baseline_only = {}
        /\ Cardinality(in_both) + Cardinality(ksi_only) + Cardinality(baseline_only)
              = Cardinality(SetOf(ksi_controls) \cup SetOf(baseline_controls))

C3_Witness ==
    /\ cw_pc = "done"
    /\ in_both # {} /\ ksi_only # {} /\ baseline_only # {}

\* C4: the totals of the per-family table add up to the size of the union of
\* the two identifier sets: an identifier in both sets is tallied once.
C4_FamilyConservation ==
    cw_pc = "done" =>
        SumOver([f \in DOMAIN families |-> family_total(families[f])], DOMAIN families)
            = Cardinality(SetOf(ksi_controls) \cup SetOf(baseline_controls))

\* C5: searching the id field alone returns exactly the entries whose id
\* starts with the upper-cased query, in ascending id order.
C5_IdOnlySearch ==
    (s_pc = "done" /\ search_fields = <<"id">>) =>
        ReturnedIds = sorted(ListOf({ k \in CatalogKeys : StartsWithQuery(k) }))

\* C6: the returned list is in descending score order, ties in ascending id
\* order, holds no entry twice, and is the matches found, whatever the
\* iteration order of the catalog.
C6_SearchOrdering ==
    s_pc = "done" =>
        /\ \A i, j \in DOMAIN returned : i < j =>
              \/ returned[i].score > returned[j].score
              \/ /\ returned[i].score = returned[j].score
                 /\ StrLess(returned[i].id, returned[j].id)
        /\ \A i, j \in DOMAIN returned : i # j => returned[i].id # returned[j].id
        /\ SetOf(returned) = SetOf(results)
        /\ Len(returned) = Len(results)

C6_Witness ==
    /\ s_pc = "done"
    /\ Len(returned) >= 2
    /\ returned[1].score = returned[2].score
    /\ returned # results

\* C7: with id among the searched fields, an entry whose id starts with the
\* upper-cased query is returned with score 100, whatever the other fields,
\* the place of id in the field list and the fuzzy flag.
C7_IdPrefixShortCircuit ==
    s_pc = "done" =>
        \A k \in CatalogKeys : IdPrefixHit(k) =>
            \E i \in DOMAIN returned : returned[i] = [id |-> k, score |-> 100]

C7_Witness ==
    /\ s_pc = "done"
    /\ ~fuzzy
    /\ search_fields = <<"name", "id">>
    /\ query = Str_AC
    /\ \E k \in CatalogKeys : IdPrefixHit(k) /\ FieldContainsQuery(k, "name")

\* C8: in exact mode an entry not matched by id prefix is returned iff the
\* query is a case-insensitive substring of a selected non-id field, with
\* score 90 for the name and 80 for the description; only 100, 90 and 80 occur.
C8_ExactModeScoring ==
    (s_pc = "done" /\ ~fuzzy) =>
        /\ \A i \in DOMAIN returned : returned[i].score \in {100, 90, 80}
        /\ \A k \in CatalogKeys : ~IdPrefixHit(k) =>
              /\ (k \in SetOf(ReturnedIds))
                    <=> (FieldContainsQuery(k, "name") \/ FieldContainsQuery(k, "description"))
              /\ \A i \in DOMAIN returned : returned[i].id = k =>
                    /\ returned[i].score \in {90, 80}
                    /\ returned[i].score = 90 => FieldContainsQuery(k, "name")
                    /\ returned[i].score = 80 => FieldContainsQuery(k, "description")

\* C9: in fuzzy mode an entry not matched by id prefix is returned iff some
\* checked field has similarity > 70 (70 itself is no match); its score is
\* the largest similarity of the checked fields, in 0..100.
Similarity(k, f) == fuzz_partial_ratio(Lower(query), Lower(controls.data[k][f]))

C10_OrderIndependent ==
    b_done = {"A", "B"} => controlsA.data = controlsB.data

\* the rows of one id all carry the same name, family, description, parameter
RowsAgree(k) ==
    \A i, j \in DOMAIN rowsA :
        (strip(rowsA[i].sort_id) = k /\ strip(rowsA[j].sort_id) = k) =>
            /\ rowsA[i].name = rowsA[j].name
            /\ rowsA[i].family = rowsA[j].family
            /\ rowsA[i].description = rowsA[j].description
            /\ rowsA[i].param = rowsA[j].param

\* C10 (amended): whatever the order of the rows, the catalog has the same
\* keys, and each entry the same id, in_ksi flag and baselines up to their
\* order; name, family, description and parameter flag are the first row's,
\* so they are the same when the rows of that id agree on them.
C10_OrderIndependentAmended ==
    b_done = {"A", "B"} =>
        /\ DOMAIN controlsA.data = DOMAIN controlsB.data
        /\ \A k \in DOMAIN controlsA.data :
              LET a == controlsA.data[k]
                  b == controlsB.data[k]
              IN  /\ a.id = b.id
                  /\ a.in_ksi = b.in_ksi
                  /\ SameBag(a.baselines, b.baselines)
                  /\ RowsAgree(k) => [a EXCEPT !.baselines = <<>>] = [b EXCEPT !.baselines = <<>>]

C10_Witness ==
    /\ b_done = {"A", "B"}
    /\ rowsA # rowsB
    /\ \E k \in DOMAIN controlsA.data :
          /\ controlsA.data[k].name # controlsB.data[k].name
          /\ controlsA.data[k].baselines # controlsB.data[k].baselines
          /\ controlsA.data[k].in_ksi

\* C11: every indicator token that normalises has, after the build, a catalog
\* entry under its canonical id with in_ksi true; when no row supplied the id
\* the entry is bare (empty name and description, no baselines).
C11_IndicatorOnlyEntries ==
    "A" \in b_done =>
        \A t \in ksi_raw :
            LET k == normalize_control(t)
            IN  k # ValueError =>
                  /\ k \in DOMAIN controlsA.data
                  /\ controlsA.data[k].in_ksi
                  /\ (\A i \in DOMAIN rowsA : strip(rowsA[i].sort_id) # k) =>
                        /\ controlsA.data[k].name = <<>>
                        /\ controlsA.data[k].description = <<>>
                        /\ controlsA.data[k].baselines = <<>>

\* C12: a control with a row on a baseline sheet and a lower-case unpadded
\* reference in the indicator text has exactly one catalog entry, keyed by
\* the canonical id, with that sheet's name among its baselines, the row's
\* name and in_ksi true; the crosswalk puts the id in in_both and in neither
\* of the other two sets.
C12_EndToEndLinkage ==
    (b_done = {"A", "B"} /\ cw_pc = "done") =>
        \A c \in CwControls : \A i \in DOMAIN rowsA :
            ( /\ rowsA[i].sort_id \in SortIdForms(c)
              /\ rowsA[i].sort_id \in sort_id_column
              /\ \E t \in ksi_raw : t \in KsiForms(c) /\ ~Contains(t, "0") )
            => LET k == Canonical(c)
               IN  /\ k \in DOMAIN controlsA.data
                   /\ Cardinality({ x \in DOMAIN controlsA.data : controlsA.data[x].id = k }) = 1
                   /\ rowsA[i].sheet \in SetOf(controlsA.data[k].baselines)
                   /\ controlsA.data[k].name = rowsA[i].name
                   /\ controlsA.data[k].in_ksi
                   /\ k \in in_both
                   /\ k \notin ksi_only
                   /\ k \notin baseline_only

\* FAMILY-NN or FAMILY-NN(E...)
IsCanonicalId(k) ==
    /\ Len(k) >= 5
    /\ IsUpperLetter(k[1]) /\ IsUpperLetter(k[2]) /\ k[3] = "-"
    /\ IsDigit(k[4]) /\ IsDigit(k[5])
    /\ \/ Len(k) = 5
       \/ /\ Len(k) >= 8
          /\ k[6] = "(" /\ k[Len(k)] = ")"
          /\ \A j \in 7..(Len(k)-1) : IsDigit(k[j])

\* C15: a row whose identifier cell does not normalise (empty cell, family
\* of three letters) adds no entry, the other rows do, and every key of the
\* catalog is a canonical control id.
C15_MalformedRowsSkipped ==
    "A" \in b_done =>
        /\ \A k \in DOMAIN controlsA.data : IsCanonicalId(k)
        /\ \A i \in DOMAIN rowsA :
              (rowsA[i].sort_id # NoColumn /\ IsCanonicalId(str_of(rowsA[i].sort_id)))
                  => str_of(rowsA[i].sort_id) \in DOMAIN controlsA.data

\* C17: when a baseline sheet has no 'SORT ID' column the build stops with
\* an error shown and returns no catalog, and the crosswalk stops with an
\* error shown instead of going on with an empty control set.
C17_MissingColumnFatal ==
    /\ ( /\ "A" \in b_done
         /\ \E i \in DOMAIN rowsA : is_baseline_sheet(rowsA[i].sheet) /\ rowsA[i].sort_id = NoColumn )
       => (st_errors # {} /\ controlsA = EmptyDict)
    /\ (sort_id_column = MissingColumn /\ cw_pc # "load")
       => (SortIdColumnNotFound \in st_errors /\ cw_pc = "stopped")

NormalizationError == <<"NormalizationError">>

Words == IF content = <<>> THEN {} ELSE SetOf(Split(content, " "))

\* two letters, hyphen, 1-2 digits, optional dot-enhancement or optional
\* parenthesised enhancement, in either case
HasControlShapeFrom(w, e) ==
    \/ e = Len(w) + 1
    \/ /\ e < Len(w) /\ w[e] = "."
       /\ digit_run(w, e + 1) = Len(w) - e
    \/ /\ e + 1 < Len(w) /\ w[e] = "(" /\ w[Len(w)] = ")"
       /\ digit_run(w, e + 1) = Len(w) - e - 1

HasControlShape(w) ==
    /\ Len(w) >= 4
    /\ IsLetter(w[1]) /\ IsLetter(w[2]) /\ w[3] = "-"
    /\ digit_run(w, 4) \in 1..2
    /\ HasControlShapeFrom(w, 4 + digit_run(w, 4))

\* PREFIX-CATEGORY-NUMBER with a category of three letters, in either case
IsIndicatorTag(w) ==
    /\ Len(w) >= 9
    /\ SubSeq(Upper(w), 1, 4) = <<"K","S","I","-">>
    /\ \A j \in 5..7 : IsLetter(w[j])
    /\ w[8] = "-"
    /\ digit_run(w, 9) = Len(w) - 8

ControlWords == { w \in Words : HasControlShape(w) }
UpperTags == { w \in Words : IsIndicatorTag(w) /\ w = Upper(w) }

NoDuplicates(list) == Cardinality(SetOf(list)) = Len(list)

\* C13 (as stated): the control-shape pattern is case-insensitive: the
\* extraction of the crosswalk yields every control-shaped word of the text,
\* upper or lower case, and every indicator tag, each once (three tokens
\* from 'AC-1', 'ac-2.3', 'KSI-IAM-05').
C13_ExtractionCompleteness ==
    (page = "crosswalk" /\ doc_pc = "read") =>
        /\ raw_controls = ControlWords
        /\ SetOf(ksi_numbers) = UpperTags
        /\ NoDuplicates(ksi_numbers)

LowerControlWords == { w \in ControlWords : w = Lower(w) /\ ~Contains(w, "(") }
UpperControlWords == { w \in ControlWords : w = Upper(w) /\ ~Contains(w, ".") }

\* the part of an identifier before its parenthesis
BareId(w) == Split(w, "(")[1]

\* C13 (amended): the control-shape patterns are case-sensitive.  The
\* crosswalk and the catalog build find exactly the lower-case control words
\* (bare or dot-enhanced), the crosswalk lists exactly the upper-case tags,
\* the document browser finds exactly the upper-case control words (of a
\* parenthesised one its base); every token once.  From 'AC-1', 'ac-2.3',
\* 'KSI-IAM-05' the crosswalk gets two tokens: 'ac-2.3' and 'KSI-IAM-05'.
C13_ExtractionCaseSensitive ==
    /\ (page = "crosswalk" /\ doc_pc = "read") =>
          /\ raw_controls = LowerControlWords
          /\ SetOf(ksi_numbers) = UpperTags
          /\ NoDuplicates(ksi_numbers)
    /\ (page = "build" /\ doc_pc = "read") => ksi_raw = LowerControlWords
    /\ (page = "browser" /\ doc_pc = "shown") =>
          /\ SetOf(control_ids) = { BareId(w) : w \in UpperControlWords }
          /\ NoDuplicates(control_ids)

C13_Witness ==
    /\ page = "crosswalk" /\ doc_pc = "read"
    /\ Words = { Word_AC1, Word_ac2_3, Word_KSI_IAM_05 }
    /\ raw_controls = { Word_ac2_3 }
    /\ ksi_numbers = << Word_KSI_IAM_05 >>

\* the indicator tags of the text, in either case, and their fragments
TagWords == { w \in Words : IsIndicatorTag(w) }
TagFragments ==
    UNION { { SubSeq(w, i, j) : i \in 1..Len(w), j \in 1..Len(w) } \ {<<>>} : w \in TagWords }
NormalizedTagFragments == { normalize_control(f) : f \in TagFragments }

\* C14: no indicator tag of the text and no fragment of one is among the
\* tokens handed to the normalisation, among the normalised controls, in a
\* set of the crosswalk, a key of the catalog or a reason for an in_ksi
\* flag; the upper-case tags are in the indicator list and only there.
C14_TagsSeparateFromControls ==
    /\ raw_controls \cap TagFragments = {}
    /\ ksi_raw \cap TagFragments = {}
    /\ (SetOf(ksi_controls) \cup in_both \cup ksi_only \cup baseline_only)
          \cap (TagFragments \cup NormalizedTagFragments) = {}
    /\ \A k \in DOMAIN controlsA.data :
          /\ k \notin (TagFragments \cup NormalizedTagFragments)
          /\ controlsA.data[k].in_ksi => k \in { normalize_control(t) : t \in LowerControlWords }
    /\ (page = "crosswalk" /\ doc_pc = "read") => SetOf(ksi_numbers) = UpperTags

C14_Witness ==
    /\ page = "crosswalk" /\ cw_pc = "done"
    /\ Words = { Word_ac1, Word_KSI_IAM_05, Word_ksi_iam_05 }
    /\ ksi_numbers = << Word_KSI_IAM_05 >>
    /\ in_both = { Str_AC01 }

\* the returned id at position i starts with the upper-cased partial
IsPrefixMatch(i) == startswith(suggestions[i], Upper(partial))

\* C19: in the returned sequence every id that starts with the upper-cased
\* partial comes before every fuzzy-only match, and the prefix matches are
\* in ascending id order whatever the insertion order of the catalog.
C19_SuggestOrdering ==
    g_pc = "done" =>
        \A i, j \in DOMAIN suggestions :
            /\ (IsPrefixMatch(i) /\ ~IsPrefixMatch(j)) => i < j
            /\ (IsPrefixMatch(i) /\ IsPrefixMatch(j) /\ i < j) => StrLess(suggestions[i], suggestions[j])

\* C20: the returned sequence has at most `limit` ids, all of them keys of
\* the catalog, none repeated, and every returned id that does not start
\* with the upper-cased partial has a token-sort score above 70.
C20_SuggestBounds ==
    g_pc = "done" =>
        /\ Len(suggestions) <= limit
        /\ SetOf(suggestions) \subseteq SetOf(controls.keys)
        /\ NoDuplicates(suggestions)
        /\ \A i \in DOMAIN suggestions :
              ~IsPrefixMatch(i) =>
                  token_sort_ratio(full_process(Upper(partial)), full_process(suggestions[i])) > 70

C20_Witness ==
    /\ g_pc = "done"
    /\ partial = Str_AC_1
    /\ limit = 1
    /\ SetOf(controls.keys) = { Str_AC01, Str_AC02, Str_AB05 }
    /\ suggestions = << Str_AC01 >>

\* C18: an empty input gives an empty output and no error: the search of
\* an empty query returns nothing, the suggestions for an empty partial are
\* none, a crosswalk with an empty control list on one side has the sets
\* fed by that side empty, and with both lists empty all three sets and
\* the family table are empty.
C18_EmptyInputEmptyOutput ==
    /\ (s_pc = "done" /\ query = <<>>) => returned = <<>>
    /\ (g_pc = "done" /\ partial = <<>>) => suggestions = <<>>
    /\ (cw_pc = "done" /\ ksi_controls = <<>>) => (in_both = {} /\ ksi_only = {})
    /\ (cw_pc = "done" /\ baseline_controls = <<>>) => (in_both = {} /\ baseline_only = {})
    /\ (cw_pc = "done" /\ ksi_controls = <<>> /\ baseline_controls = <<>>)
          => (in_both = {} /\ ksi_only = {} /\ baseline_only = {} /\ families = << >>)
    /\ (cw_pc = "done" /\ sort_id_column = {}) => st_errors = {}

\* the rows of run A that load_all_controls files under key k, in row order
RowsOf(k) ==
    SelectSeq(rowsA, LAMBDA row : /\ has_sort_id_column(row)
                                  /\ is_baseline_sheet(row.sheet)
                                  /\ strip(str_of(row.sort_id)) = k)

BaselineName(row) == replace(row.sheet, SpaceBaseline, <<>>)

\* C21: the name, family and description of an entry are those of the
\* first row processed for its id, whatever the later rows of the id say,
\* and every row of the id, the later ones included, adds its baseline.
C21_FirstWriterWins ==
    "A" \in b_done =>
        \A k \in DOMAIN controlsA.data : \A rows \in {RowsOf(k)} :
            /\ rows # <<>>
            /\ controlsA.data[k].name = rows[1].name
            /\ controlsA.data[k].family = rows[1].family
            /\ controlsA.data[k].description = truncate(rows[1].description, DescriptionLimit)
            /\ controlsA.data[k].baselines = [i \in DOMAIN rows |-> BaselineName(rows[i])]

C21_Witness ==
    /\ "A" \in b_done
    /\ Len(RowsOf(Str_AC01)) = 2
    /\ RowsOf(Str_AC01)[1].name # RowsOf(Str_AC01)[2].name
    /\ RowsOf(Str_AC01)[1].sheet # RowsOf(Str_AC01)[2].sheet
    /\ controlsA.data[Str_AC01].name = RowsOf(Str_AC01)[1].name
    /\ Len(controlsA.data[Str_AC01].baselines) = 2

\* C22: the baselines of an entry are exactly the baselines of the rows
\* that carried its id, each baseline name at most once, also when the id
\* is in more than one row of the same sheet.
C22_BaselinesAreASet ==
    "A" \in b_done =>
        \A k \in DOMAIN controlsA.data :
            /\ \A rows \in {RowsOf(k)} :
                  SetOf(controlsA.data[k].baselines) = { BaselineName(rows[i]) : i \in DOMAIN rows }
            /\ NoDuplicates(controlsA.data[k].baselines)

\* the rows of the export with the given control id
ExportRows(c) == { i \in DOMAIN crosswalk_data : crosswalk_data[i].control_id = c }

\* C23: the export has exactly one row for each id of the union of the two
\* lists; the two flags of a row say whether the id is in the KSI list and
\* in the baseline list, and the status is 'Both' iff both flags are set,
\* 'KSI Only' iff only the first, 'Baseline Only' iff only the second.
C23_CrosswalkExport ==
    cw_pc = "exported" =>
        /\ { crosswalk_data[i].control_id : i \in DOMAIN crosswalk_data }
              = SetOf(ksi_controls) \cup SetOf(baseline_controls)
        /\ \A c \in SetOf(ksi_controls) \cup SetOf(baseline_controls) : Cardinality(ExportRows(c)) = 1
        /\ \A i \in DOMAIN crosswalk_data :
              LET r == crosswalk_data[i]
              IN  /\ (r.in_ksi = CheckMark) <=> (r.control_id \in SetOf(ksi_controls))
                  /\ (r.in_baseline = CheckMark) <=> (r.control_id \in SetOf(baseline_controls))
                  /\ r.in_ksi \in {CheckMark, CrossMark} /\ r.in_baseline \in {CheckMark, CrossMark}
                  /\ (r.status = "Both") <=> (r.in_ksi = CheckMark /\ r.in_baseline = CheckMark)
                  /\ (r.status = "KSI Only") <=> (r.in_ksi = CheckMark /\ r.in_baseline = CrossMark)
                  /\ (r.status = "Baseline Only") <=> (r.in_ksi = CrossMark /\ r.in_baseline = CheckMark)

C23_Witness ==
    /\ cw_pc = "exported"
    /\ \E i, j, k \in DOMAIN crosswalk_data :
          /\ crosswalk_data[i].status = "Both"
          /\ crosswalk_data[j].status = "KSI Only"
          /\ crosswalk_data[k].status = "Baseline Only"
    /\ Len(ksi_controls) > Cardinality(SetOf(ksi_controls))

\* the score of each returned id
ScoreOf(list) == { <<list[i].id, list[i].score>> : i \in DOMAIN list }

\* C25: in exact mode every entry gets the same score for any two
\* orderings of the same selected fields.
C25_ExactScoreFieldOrder ==
    (s_pc = "done" /\ ~fuzzy) =>
        \A fields \in Orderings(search_fields) :
            ScoreOf(search_controls(query, controls, fields, FALSE)) = ScoreOf(returned)

\* C24: no run of the search page, with its calls of get_control_suggestions
\* and search_controls and its filter loop, changes the catalog: every key
\* and every field of every entry stay what the build produced.
C24_CatalogReadOnly == [][controls' = controls]_vars

C24_Witness ==
    /\ s_pc = "session"
    /\ suggestions # <<>>
    /\ returned # <<>>
    /\ Len(filtered_results) < Len(returned)
    /\ Len(controls.keys) = 3

\* the query occurs in the text at the 0-based position pos
OccursAt(text, q, pos, cs) ==
    /\ pos + Len(q) <= Len(text)
    /\ IF cs THEN SubSeq(text, pos + 1, pos + Len(q)) = q
       ELSE Lower(SubSeq(text, pos + 1, pos + Len(q))) = Lower(q)

Occurs(text, q, cs) == \E pos \in 0..Len(text) : OccursAt(text, q, pos, cs)

\* where the scan continues after an occurrence at pos
AfterOccurrence(q, pos) == IF q = <<>> THEN pos + 1 ELSE pos + Len(q)

\* the contexts are those of the first occurrences, in document order
FirstOccurrences(text, q, cs, contexts) ==
    /\ Len(contexts) >= 1
    /\ Len(contexts) <= MaxContexts
    /\ \A j \in DOMAIN contexts :
          LET from == IF j = 1 THEN 0 ELSE AfterOccurrence(q, contexts[j-1].start)
          IN  /\ contexts[j].start >= from
              /\ OccursAt(text, q, contexts[j].start, cs)
              /\ \A pos \in from..(contexts[j].start - 1) : ~OccursAt(text, q, pos, cs)
              /\ contexts[j].match = SubSeq(text, contexts[j].start + 1, contexts[j].start + Len(q))
    /\ Len(contexts) < MaxContexts =>
          \A pos \in AfterOccurrence(q, contexts[Len(contexts)].start)..Len(text) :
              ~OccursAt(text, q, pos, cs)

\* the context is the text from 100 characters before the match to 100
\* characters after it, clipped to the text
ClippedContext(text, q, context) ==
    LET first == IF context.start - ContextRadius < 0 THEN 0 ELSE context.start - ContextRadius
        last  == IF context.start + Len(q) + ContextRadius > Len(text) THEN Len(text)
                 ELSE context.start + Len(q) + ContextRadius
    IN  /\ context.text = SubSeq(text, first + 1, last)
        /\ Len(context.text) <= Len(q) + 2 * ContextRadius

\* C30: search_documents returns one result for exactly the documents that
\* contain an occurrence of the query and whose type is the selected one
\* (every type for 'all'), in the order of the documents; each result has at
\* most 5 contexts, those of the first occurrences in document order, and
\* each context is the text from 100 characters before its match to 100
\* characters after it, clipped to the bounds of the document.
C30_DocumentSearch ==
    gs_pc = "searched" =>
        /\ [i \in DOMAIN doc_results |-> doc_results[i].doc_name]
             = SelectSeq(documents.keys,
                         LAMBDA k : /\ (search_type = "all" \/ documents.data[k].type = search_type)
                                    /\ Occurs(documents.data[k].content, search_query, case_sensitive))
        /\ \A i \in DOMAIN doc_results :
              /\ doc_results[i].doc_data = documents.data[doc_results[i].doc_name]
              /\ FirstOccurrences(doc_results[i].doc_data.content, search_query, case_sensitive,
                                  doc_results[i].contexts)
              /\ \A j \in DOMAIN doc_results[i].contexts :
                    ClippedContext(doc_results[i].doc_data.content, search_query,
                                   doc_results[i].contexts[j])

C30_Witness ==
    /\ gs_pc = "searched"
    /\ search_query = Str_ab
    /\ Len(doc_results) = 2
    /\ Len(documents.keys) = 4
    /\ \E i \in DOMAIN doc_results : Len(doc_results[i].contexts) = MaxContexts
    /\ \E i \in DOMAIN doc_results : \E j \in DOMAIN doc_results[i].contexts :
          /\ doc_results[i].contexts[j].start > ContextRadius
          /\ Len(doc_results[i].contexts[j].text) = Len(search_query) + 2 * ContextRadius
    /\ \E i \in DOMAIN doc_results : \E j \in DOMAIN doc_results[i].contexts :
          /\ doc_results[i].contexts[j].start > ContextRadius
          /\ Len(doc_results[i].contexts[j].text) < Len(search_query) + 2 * ContextRadius

\* the search history holds at most 10 queries, none empty, none twice
HistoryInvariant ==
    gs_pc = "session" =>
        /\ Len(session_state.search_history) <= HistoryLimit
        /\ <<>> \notin SetOf(session_state.search_history)
        /\ NoDuplicates(session_state.search_history)

\* a Search with a query that is not in the history puts it at position 0;
\* a Search with a query of the history, or with the empty text, changes nothing
SearchStep ==
    SearchPressed =>
        IF search_query' # <<>> /\ search_query' \notin SetOf(session_state.search_history)
        THEN /\ session_state'.search_history # <<>>
             /\ session_state'.search_history[1] = search_query'
        ELSE session_state'.search_history = session_state.search_history

\* C26: after any sequence of Search, Clear, Save and Delete actions the
\* search history holds at most 10 queries, no empty query and no query
\* twice; a Search with a query that is not in the history places it at
\* position 0 and a Search with a query of the history leaves the history
\* unchanged.
C26_SearchHistory == []HistoryInvariant /\ [][SearchStep]_vars

C26_Witness ==
    /\ gs_pc = "session"
    /\ Len(session_state.search_history) = HistoryLimit
    /\ session_state.search_history[1] = QueryPool[HistoryLimit + 1]
    /\ search_query = QueryPool[HistoryLimit + 1]
    /\ QueryPool[1] \notin SetOf(session_state.search_history)

\* C27: Clear empties the search history and leaves the saved searches
\* unchanged; Save and Delete leave the search history unchanged.
C27_ClearScopedToHistory ==
    [][ /\ ClearPressed =>
              /\ session_state'.search_history = <<>>
              /\ session_state'.saved_searches = session_state.saved_searches
        /\ (SavePressed \/ DeletePressed) =>
              session_state'.search_history = session_state.search_history ]_vars

\* the history is empty although one of its queries, which is never saved,
\* was selected, and the saved searches are still there
C27_Witness ==
    /\ gs_pc = "session"
    /\ session_state.search_history = <<>>
    /\ Len(session_state.saved_searches) = 2
    /\ "search_query" \in DOMAIN session_state
    /\ session_state.search_query \notin SavedPool

\* the saved searches hold no empty query and no query twice
SavedInvariant ==
    gs_pc = "session" =>
        /\ <<>> \notin SetOf(session_state.saved_searches)
        /\ NoDuplicates(session_state.saved_searches)

\* the list without the entry at the 0-based index idx
Without(list, idx) ==
    [k \in 1..(Len(list) - 1) |-> IF k <= idx THEN list[k] ELSE list[k + 1]]

SavedStep ==
    /\ (SavePressed /\ search_query' \in SetOf(session_state.saved_searches)) =>
          session_state' = session_state
    /\ DeletePressed =>
          \E idx \in 0..(Len(session_state.saved_searches) - 1) :
             session_state'.saved_searches = Without(session_state.saved_searches, idx)

\* C28: after any sequence of Save and Delete actions the saved searches
\* hold no empty query and no query twice; Save of a query that is already
\* saved changes nothing, and Delete of the entry at index i removes exactly
\* that entry and keeps the others in their order.
C28_SavedSearches == []SavedInvariant /\ [][SavedStep]_vars

C28_Witness ==
    /\ gs_pc = "session"
    /\ session_state.saved_searches = <<QueryPool[1], QueryPool[3]>>
    /\ search_query = QueryPool[3]
    /\ session_state.search_history = <<QueryPool[2], QueryPool[1]>>

\* the stored document is one of the stored category, and after a run the
\* lookup of its (type, filename) pair has succeeded
SelectionInvariant ==
    /\ page = "browser" =>
          selected_doc \in SetOf(DOCUMENTS.data[selected_category].keys)
    /\ br_pc = "shown" =>
          /\ doc_file # KeyError
          /\ doc_file = DOCUMENTS.data[selected_category].data[selected_doc]

\* a change to a category without the selected document selects the first
\* document of that category
ResetStep ==
    (/\ selected_category' # selected_category
     /\ selected_doc \notin SetOf(DOCUMENTS.data[selected_category'].keys))
    => selected_doc' = DOCUMENTS.data[selected_category'].keys[1]

\* C29: after every run of the script, whatever categories and documents
\* were selected, the stored document is one of the documents of the stored
\* category, so the lookup of its (type, filename) pair does not fail; when
\* the category changes to one that does not contain the document selected
\* before, the selection is that category's first document.
C29_BrowserSelection == []SelectionInvariant /\ [][ResetStep]_vars

C29_Witness ==
    /\ br_pc = "shown"
    /\ selected_category = "Roadmap"
    /\ selected_doc = "Sprint Progress Updates"
    /\ doc_file = <<"roadmap", "PROGRESS.md">>

====
